---------------------------- MODULE Spec2Model ----------------------------
(***************************************************************************)
(* Step-handler execution framework of tasker-core (python worker):        *)
(* handler dispatch (functional.py), the batch analyzer and the            *)
(* checkpoint-yield batch worker (tests/handlers/dsl_examples).            *)
(*                                                                         *)
(* The module holds two state machines, each over its own variables:       *)
(*   Spec          one call() of a decorator-generated handler             *)
(*   SpecAnalyzer  the same machine, started on @batch_analyzer handlers   *)
(*   SpecWorker    the invocation chain of one checkpoint-yield worker     *)
(* A specification leaves the variables of the other machine idle.         *)
(***************************************************************************)
EXTENDS Integers, Sequences, FiniteSets, TLC

VARIABLES
    \* ---- one call() of a decorator-generated handler ----
    h_handler,         \* the registered handler: decorator, sync/async, ArgumentSpec
    h_context,         \* the StepContext of the invocation (read-only)
    h_fn,              \* the decorated user function (what it does when called)
    h_phase,           \* "ready" | "awaiting" | "returned" | "escaped"
    h_result,          \* the StepHandlerResult call() returned (or resolved to)
    h_run,             \* what happened inside call(): kwargs, stage of a raise, ...
    \* ---- checkpoint-yield worker and its orchestrator ----
    wk_batch_inputs,   \* None or <<[start_cursor, end_cursor]>>: get_batch_worker_inputs(context)
    wk_task_inputs,    \* task context inputs read by the worker (context.get_input*)
    wk_retry_count,    \* orchestrator's attempt counter for the step (context.retry_count)
    wk_stored,         \* the durably stored checkpoint: None or <<CheckpointState>>
    wk_context,        \* the StepContext handed to the current (or last) invocation
    wk_outcome,        \* what the last invocation returned
    wk_phase,          \* "pending" | "running" | "returned" | "done"
    wk_yields,         \* checkpoints emitted since the chain of this range began
                       \* (a range of at most MaxLen items: the count stops at MaxLen + 1)
    wk_last_attempt_yield, \* last checkpoint cursor emitted during the current attempt (or -1)
    wk_failures,       \* failures returned since the chain of this range began
    \* ---- one call() of the checkpoint-yield aggregator ----
    ag_deps,           \* context.dependency_results: step name -> result payload
    ag_phase,          \* "ready" | "returned" ("idle" in the other specifications)
    ag_result,         \* the StepHandlerResult call() returned
    \* ---- one _submit_result of the step-execution subscriber ----
    sb_result,         \* the handler result to submit
    sb_env,            \* how serialization and the FFI answer during the call
    sb_phase,          \* "ready" | "returned" | "raised" ("idle" elsewhere)
    sb_calls,          \* the submissions made, in order
    sb_raised,         \* the exception _submit_result raised, or None
    \* ---- the Worker singleton and the components it starts ----
    lc_instance,       \* Worker._instance: None or <<id of a Worker object>>
    lc_workers,        \* the Worker objects created so far, by id
    lc_components,     \* whether the FFI worker and the EventBridge singleton run
    lc_last,           \* the last operation: its name, target, outcome and the calls it made
    \* ---- the workers of one BatchConfig, invoked in any interleaving ----
    cw_inputs,         \* the task inputs the workers share
    cw_workers,        \* per worker: range, attempt, stored checkpoint, context, outcome, phase
    cw_handler,        \* the attributes of the handler object (call() assigns none)
    \* ---- a function, the decorators applied to it, the class generated for it ----
    rg_fn,             \* the function's attributes: _depends_on, _dep_models, _inputs, _input_model
    rg_handler,        \* None, or what the generated class closed over (and fn's attributes then)
    rg_last,           \* the last operation, and for a call the context and the arguments injected
    \* ---- the CSV batch processors of one analysed file ----
    cp_file,           \* the data rows DictReader yields: per row, whether price and stock parse
    cp_dependency,     \* context.get_dependency_result("analyze_csv_dsl_py")
    cp_workers,        \* per worker step: its step_inputs and the result of its call(), or None
    \* ---- threads inside Worker.start() at the same time ----
    cs_threads         \* per thread: where it is in start(), the Worker it built, what it got

worker_vars == <<wk_batch_inputs, wk_task_inputs, wk_retry_count, wk_stored,
                 wk_context, wk_outcome, wk_phase, wk_yields, wk_last_attempt_yield,
                 wk_failures>>

handler_vars == <<h_handler, h_context, h_fn, h_phase, h_result, h_run>>

aggregator_vars == <<ag_deps, ag_phase, ag_result>>

subscriber_vars == <<sb_result, sb_env, sb_phase, sb_calls, sb_raised>>

lifecycle_vars == <<lc_instance, lc_workers, lc_components, lc_last>>

concurrent_vars == <<cw_inputs, cw_workers, cw_handler>>

registration_vars == <<rg_fn, rg_handler, rg_last>>

processor_vars == <<cp_file, cp_dependency, cp_workers>>

starter_vars == <<cs_threads>>

vars == <<handler_vars, worker_vars, aggregator_vars, subscriber_vars, lifecycle_vars,
          concurrent_vars, registration_vars, processor_vars, starter_vars>>

(***************************************************************************)
(* Bounds of the model.                                                    *)
(***************************************************************************)
MaxStart == 2        \* range starts 0..MaxStart
MaxLen == 4          \* range lengths 0..MaxLen
MaxInterval == 3     \* items_per_checkpoint 1..MaxInterval
MaxRetries == 2      \* the orchestrator gives up after this many retries
MaxFailAttempt == 2  \* fail_on_attempt 1..MaxFailAttempt
MaxItems == 7        \* analyzers: total_items / row counts 0..MaxItems
MaxBatch == 4        \* analyzers: batch_size 1..MaxBatch
MaxWorkers == 3      \* csv_analyzer: max_workers 1..MaxWorkers
MaxAggItems == 2     \* aggregator: ranges of 0..MaxAggItems items per worker result

(***************************************************************************)
(* Program constants.                                                      *)
(***************************************************************************)
DefaultTotalItems == 100   \* checkpoint_yield_analyzer: get_input_or("total_items", 100)
DefaultBatchSize == 200    \* csv_analyzer: step_config.get("batch_size", 200)
DefaultMaxWorkers == 5     \* csv_analyzer: step_config.get("max_workers", 5)

(***************************************************************************)
(* Python values.  None is the empty tuple, a present value x is <<x>>.    *)
(***************************************************************************)
None == <<>>
Some(x) == <<x>>
IsNone(v) == v = <<>>
Get(v) == v[1]

\* Python's `a or b` on an optional integer: None and 0 are falsy.
OrInt(opt, default) == IF IsNone(opt) \/ Get(opt) = 0 THEN default ELSE Get(opt)

\* Python's `a or b` on an optional dict: None and {} are falsy; an
\* accumulated-results dict written by the worker always has its two keys.
OrDict(opt, default) == IF IsNone(opt) THEN default ELSE Get(opt)

\* f"{n:04d}" for 0 <= n < 10000, as its four decimal digits.
Format04d(n) == << (n \div 1000) % 10, (n \div 100) % 10, (n \div 10) % 10, n % 10 >>

\* f"item_{cursor:04d}"
ItemId(cursor) == <<"item_">> \o Format04d(cursor)

EmptyAccumulated == [running_total |-> 0, item_ids |-> <<>>]

(***************************************************************************)
(* Result constructors of StepHandler / Batchable (tasker_core.types and   *)
(* tasker_core.batch_processing: shapes from the specification, sections   *)
(* 3 and 6).                                                               *)
(***************************************************************************)
Failure(message, error_type, retryable, metadata) ==
    [kind |-> "failure", message |-> message, error_type |-> error_type,
     retryable |-> retryable, metadata |-> metadata]

CheckpointYield(cursor, items_processed, accumulated_results) ==
    [kind |-> "checkpoint", cursor |-> cursor, items_processed |-> items_processed,
     accumulated_results |-> accumulated_results]

BatchWorkerSuccess(items_processed, items_succeeded, items_failed, batch_metadata) ==
    [kind |-> "success", items_processed |-> items_processed,
     items_succeeded |-> items_succeeded, items_failed |-> items_failed,
     batch_metadata |-> batch_metadata]

Success(result, metadata) ==
    [kind |-> "success", result |-> result, metadata |-> metadata]

(***************************************************************************)
(* Python objects a user function can return or a context can hold: a      *)
(* record [pytype, val]; val has one shape per pytype.                     *)
(***************************************************************************)
PyStr(s) == [pytype |-> "str", val |-> s]
PyInt(n) == [pytype |-> "int", val |-> n]
PyDict(d) == [pytype |-> "dict", val |-> d]
PyModel(name, fields) == [pytype |-> "BaseModel", val |-> [model |-> name, fields |-> fields]]
PyResult(r) == [pytype |-> "StepHandlerResult", val |-> r]

\* Python truthiness of an optional value: None, "" and 0 are falsy.
Truthy(opt) ==
    /\ ~IsNone(opt)
    /\ ~(Get(opt).pytype = "str" /\ Get(opt).val = "")
    /\ ~(Get(opt).pytype = "int" /\ Get(opt).val = 0)

(***************************************************************************)
(* Exceptions of tasker_core.errors (specification 4.1).  PermanentError   *)
(* and RetryableError are taken as TaskerError subclasses, pydantic's      *)
(* ValidationError is a ValueError.  Every class here derives from         *)
(* Exception: interpreter signals (KeyboardInterrupt, SystemExit, task     *)
(* cancellation) are not faults of user logic or of argument injection.    *)
(***************************************************************************)
ExceptionBases ==
    [PermanentError |-> {"PermanentError", "TaskerError", "Exception"},
     RetryableError |-> {"RetryableError", "TaskerError", "Exception"},
     TaskerError |-> {"TaskerError", "Exception"},
     ValidationError |-> {"ValidationError", "ValueError", "Exception"},
     ValueError |-> {"ValueError", "Exception"},
     TypeError |-> {"TypeError", "Exception"}]

\* exc: [cls, message, retryable]; retryable is the instance attribute
\* `retryable` (None when the object has none).
Exc(cls, message, retryable) == [cls |-> cls, message |-> message, retryable |-> retryable]

IsInstance(exc, cls) == cls \in ExceptionBases[exc.cls]

(***************************************************************************)
(* functional.py: auto-wrapping                                            *)
(***************************************************************************)

\* _wrap_result with the fallback rule tried before the None rule.
WrapResultFallbackBeforeNone(raw) ==
    IF ~IsNone(raw) /\ Get(raw).pytype = "StepHandlerResult" THEN Get(raw).val
    ELSE IF ~IsNone(raw) /\ Get(raw).pytype = "dict" THEN Success(Get(raw), <<>>)
    ELSE IF ~IsNone(raw) /\ Get(raw).pytype = "BaseModel"
         THEN Success(PyDict(Get(raw).val.fields), <<>>)
    ELSE Success(PyDict([result |-> raw]), <<>>)

\* _wrap_result(result): lines 146-164.  raw is None or <<object>>.
WrapResult(raw) ==
    IF ~IsNone(raw) /\ Get(raw).pytype = "StepHandlerResult" THEN Get(raw).val
    ELSE IF ~IsNone(raw) /\ Get(raw).pytype = "dict" THEN Success(Get(raw), <<>>)
    ELSE IF ~IsNone(raw) /\ Get(raw).pytype = "BaseModel"
         THEN Success(PyDict(Get(raw).val.fields), <<>>)     \* model_dump(mode="json")
    ELSE IF IsNone(raw) THEN Success(PyDict(<<>>), <<>>)
    ELSE Success(PyDict([result |-> Get(raw)]), <<>>)

\* _wrap_exception(exc): lines 167-196.
WrapExceptionUnknownPermanent(exc) ==
    IF IsInstance(exc, "PermanentError")
    THEN Failure(exc.message, "PERMANENT_ERROR", FALSE, <<>>)
    ELSE IF IsInstance(exc, "RetryableError")
    THEN Failure(exc.message, "RETRYABLE_ERROR", TRUE, <<>>)
    ELSE IF IsInstance(exc, "TaskerError")
    THEN Failure(exc.message, "HANDLER_ERROR",
                 IF IsNone(exc.retryable) THEN TRUE ELSE Get(exc.retryable), <<>>)
    ELSE Failure(exc.message, "HANDLER_ERROR", FALSE, <<"exception_type", exc.cls>>)

WrapException(exc) ==
    IF IsInstance(exc, "PermanentError")
    THEN Failure(exc.message, "PERMANENT_ERROR", FALSE, <<>>)
    ELSE IF IsInstance(exc, "RetryableError")
    THEN Failure(exc.message, "RETRYABLE_ERROR", TRUE, <<>>)
    ELSE IF IsInstance(exc, "TaskerError")
    THEN Failure(exc.message, "HANDLER_ERROR",
                 IF IsNone(exc.retryable) THEN TRUE ELSE Get(exc.retryable), <<>>)   \* getattr(exc, "retryable", True)
    ELSE Failure(exc.message, "HANDLER_ERROR", TRUE, <<"exception_type", exc.cls>>)

(***************************************************************************)
(* StepContext lookups (tasker_core.types; specification section 6:        *)
(* pure lookups that answer absent for a missing key).                     *)
(***************************************************************************)
GetInput(context, key) ==
    IF key \in DOMAIN context.input_data THEN context.input_data[key] ELSE None

GetDependencyResult(context, step_name) ==
    IF step_name \in DOMAIN context.dependency_results
    THEN context.dependency_results[step_name] ELSE None

(***************************************************************************)
(* The input models of the tests (pydantic BaseModel subclasses).          *)
(*   RefundInput: ticket_id and customer_id are `str` (required), reason   *)
(*     is `str | None = None`.                                             *)
(*   ValidatedRefundInput: every field optional, and an "after" validator  *)
(*     that raises PermanentError when one is falsy.                       *)
(* refund_amount is left out: the constructor treats it as customer_id.    *)
(***************************************************************************)
ModelFields ==
    [RefundInput |-> {"ticket_id", "customer_id", "reason"},
     ValidatedRefundInput |-> {"ticket_id", "customer_id"}]

RequiredFields ==
    [RefundInput |-> {"ticket_id", "customer_id"},
     ValidatedRefundInput |-> {}]

ValidatedFields ==
    [RefundInput |-> {},
     ValidatedRefundInput |-> {"ticket_id", "customer_id"}]

\* input_model(**model_data): the instance, or the exception the model's
\* own validation raises.
ConstructModel(model, model_data) ==
    IF \E f \in RequiredFields[model] : IsNone(model_data[f])
    THEN [raised |-> Some(Exc("ValidationError", "Input should be a valid string", None)),
          value |-> None]
    ELSE IF \E f \in ValidatedFields[model] : ~Truthy(model_data[f])
    THEN [raised |-> Some(Exc("PermanentError", "Missing required fields", Some(FALSE))),
          value |-> None]
    ELSE [raised |-> None, value |-> Some(PyModel(model, model_data))]

(***************************************************************************)
(* functional.py: argument injection                                       *)
(***************************************************************************)

\* Lines 213-220: one @depends_on entry.  model_construct does not validate.
InjectDependencyRejectingAbsent(context, step_name, typed) ==
    LET raw == GetDependencyResult(context, step_name)
    IN IF IsNone(raw)
       THEN [raised |-> Some(Exc("ValueError", "missing dependency", None)), value |-> None]
       ELSE [raised |-> None, value |-> raw]

InjectDependency(context, step_name, typed) ==
    LET raw == GetDependencyResult(context, step_name)
    IN IF typed /\ ~IsNone(raw) /\ Get(raw).pytype = "dict"
       THEN [raised |-> None, value |-> Some(PyModel("model_construct", Get(raw).val))]
       ELSE [raised |-> None, value |-> raw]

\* Lines 223-231: the inputs, through the model class or key by key.
InjectInputsUnvalidated(context, decl) ==
    IF decl.mode = "model"
    THEN LET model_data == [f \in ModelFields[decl.model] |-> GetInput(context, f)]
         IN [raised |-> None,
             kwargs |-> [p \in {"inputs"} |-> Some(PyModel(decl.model, model_data))]]
    ELSE [raised |-> None, kwargs |-> [key \in decl.keys |-> GetInput(context, key)]]

InjectInputs(context, decl) ==
    IF decl.mode = "model"
    THEN LET model_data == [f \in ModelFields[decl.model] |-> GetInput(context, f)]
             built == ConstructModel(decl.model, model_data)
         IN [raised |-> built.raised,
             kwargs |-> [p \in {"inputs"} |-> built.value]]
    ELSE [raised |-> None, kwargs |-> [key \in decl.keys |-> GetInput(context, key)]]

\* Merge of two keyword maps with disjoint or overlapping names (the later wins).
Merge(a, b) ==
    [k \in DOMAIN a \cup DOMAIN b |-> IF k \in DOMAIN b THEN b[k] ELSE a[k]]

\* _inject_args, with a rejected input model passed on as None.
InjectArgsSwallowingRejection(handler, context) ==
    LET deps == [p \in DOMAIN handler.dep_map |->
                    InjectDependency(context, handler.dep_map[p].step, handler.dep_map[p].typed)]
        ins == InjectInputs(context, handler.inputs)
        dep_kwargs == [p \in DOMAIN deps |-> deps[p].value]
    IN [raised |-> None, at |-> "none", kwargs |-> Merge(dep_kwargs, ins.kwargs)]

\* _inject_args(fn, context, dep_map, input_keys): lines 199-240.  The
\* value names the exception raised, if any, and the stage that raised it.
InjectArgs(handler, context) ==
    LET deps == [p \in DOMAIN handler.dep_map |->
                    InjectDependency(context, handler.dep_map[p].step, handler.dep_map[p].typed)]
        dep_failed == { p \in DOMAIN deps : ~IsNone(deps[p].raised) }
        ins == InjectInputs(context, handler.inputs)
        dep_kwargs == [p \in DOMAIN deps |-> deps[p].value]
    IN IF dep_failed # {}
       THEN [raised |-> deps[CHOOSE p \in dep_failed : TRUE].raised, at |-> "deps",
             kwargs |-> dep_kwargs]
       ELSE IF ~IsNone(ins.raised)
       THEN [raised |-> ins.raised, at |-> "inputs", kwargs |-> dep_kwargs]
       ELSE [raised |-> None, at |-> "none", kwargs |-> Merge(dep_kwargs, ins.kwargs)]

(***************************************************************************)
(* Decision and BatchConfig helpers; the DecisionMixin and Batchable       *)
(* methods they are handed to (shapes from the specification,              *)
(* sections 4.4, 4.5 and 6, and from the tests).                           *)
(***************************************************************************)

\* Decision.route(steps, **routing_context): lines 91-107.
DecisionRoute(steps, routing_context) ==
    [pytype |-> "Decision",
     val |-> [decision_type |-> "create_steps", next_step_names |-> steps,
              reason |-> None, routing_context |-> routing_context]]

\* Decision.skip(reason, **routing_context): lines 109-122.
DecisionSkip(reason, routing_context) ==
    [pytype |-> "Decision",
     val |-> [decision_type |-> "no_branches", next_step_names |-> <<>>,
              reason |-> Some(reason), routing_context |-> routing_context]]

\* BatchConfig(total_items, batch_size, metadata): lines 125-138.
BatchConfig(total_items, batch_size, metadata) ==
    [pytype |-> "BatchConfig",
     val |-> [total_items |-> total_items, batch_size |-> batch_size, metadata |-> metadata]]

\* DecisionMixin.decision_success(step_names, routing_context)
DecisionSuccess(step_names, routing_context) ==
    Success(PyDict([decision_point_outcome |-> [type |-> "create_steps",
                                                step_names |-> step_names],
                    routing_context |-> routing_context]),
            <<"decision_handler">>)

\* DecisionMixin.skip_branches(reason, routing_context)
SkipBranches(reason, routing_context) ==
    Success(PyDict([decision_point_outcome |-> [type |-> "no_branches"],
                    reason |-> reason,
                    routing_context |-> routing_context]),
            <<"decision_handler">>)

Min(a, b) == IF a <= b THEN a ELSE b

\* ceil(a / b) for b >= 1, as the integer expression (a + b - 1) // b.
CeilDiv(a, b) == (a + b - 1) \div b

\* Batchable's partitioning: ceil(total_items / batch_size) contiguous
\* half-open ranges covering [0, total_items); none for zero items.
CreateCursorConfigs(total_items, batch_size) ==
    [i \in 1..CeilDiv(total_items, batch_size) |->
        [start_cursor |-> (i - 1) * batch_size,
         end_cursor |-> Min(i * batch_size, total_items)]]

\* Batchable.create_batch_outcome(total_items, batch_size, batch_metadata)
CreateBatchOutcome(total_items, batch_size, batch_metadata) ==
    LET cursor_configs == CreateCursorConfigs(total_items, batch_size)
    IN [type |-> IF Len(cursor_configs) = 0 THEN "no_batches" ELSE "create_batches",
        total_items |-> total_items,
        worker_count |-> Len(cursor_configs),
        cursor_configs |-> cursor_configs,
        batch_metadata |-> batch_metadata]

\* Batchable.batch_analyzer_success(outcome, worker_template_name)
BatchAnalyzerSuccess(outcome, worker_template_name) ==
    Success(PyDict([batch_processing_outcome |->
                        [type |-> outcome.type,
                         worker_template_name |-> worker_template_name,
                         total_items |-> outcome.total_items,
                         worker_count |-> outcome.worker_count,
                         cursor_configs |-> outcome.cursor_configs,
                         batch_metadata |-> outcome.batch_metadata],
                    worker_count |-> outcome.worker_count,
                    total_items |-> outcome.total_items]),
            <<"batch_analyzer">>)

(***************************************************************************)
(* functional.py: what each decorator's call() does with the value the     *)
(* user function returned.                                                 *)
(***************************************************************************)
PyOrStr(opt, default) == IF IsNone(opt) \/ Get(opt) = "" THEN default ELSE Get(opt)

\* decision_handler's result handling with a returned StepHandlerResult put
\* through the handler's own success path: its metadata is replaced.
DecisionTransformMarkingResult(raw) ==
    IF ~IsNone(raw) /\ Get(raw).pytype = "StepHandlerResult"
    THEN [Get(raw).val EXCEPT !.metadata = <<"decision_handler">>]
    ELSE IF ~IsNone(raw) /\ Get(raw).pytype = "Decision"
    THEN LET outcome == Get(raw).val
         IN IF outcome.decision_type = "create_steps"
            THEN DecisionSuccess(outcome.next_step_names, outcome.routing_context)
            ELSE SkipBranches(PyOrStr(outcome.reason, "No branches"), outcome.routing_context)
    ELSE WrapResult(raw)

\* decision_handler's result handling with the reason of a skip always the
\* default.
DecisionTransformDefaultReason(raw) ==
    IF ~IsNone(raw) /\ Get(raw).pytype = "StepHandlerResult" THEN Get(raw).val
    ELSE IF ~IsNone(raw) /\ Get(raw).pytype = "Decision"
    THEN LET outcome == Get(raw).val
         IN IF outcome.decision_type = "create_steps"
            THEN DecisionSuccess(outcome.next_step_names, outcome.routing_context)
            ELSE SkipBranches("No branches", outcome.routing_context)
    ELSE WrapResult(raw)

\* decision_handler's result handling, with the routed steps in reverse order.
DecisionTransformReversingSteps(raw) ==
    IF ~IsNone(raw) /\ Get(raw).pytype = "StepHandlerResult" THEN Get(raw).val
    ELSE IF ~IsNone(raw) /\ Get(raw).pytype = "Decision"
    THEN LET outcome == Get(raw).val
             n == Len(outcome.next_step_names)
         IN IF outcome.decision_type = "create_steps"
            THEN DecisionSuccess([i \in 1..n |-> outcome.next_step_names[n + 1 - i]],
                                 outcome.routing_context)
            ELSE SkipBranches(PyOrStr(outcome.reason, "No branches"), outcome.routing_context)
    ELSE WrapResult(raw)

\* decision_handler: lines 516-530 (and 486-500).
DecisionTransform(raw) ==
    IF ~IsNone(raw) /\ Get(raw).pytype = "StepHandlerResult" THEN Get(raw).val
    ELSE IF ~IsNone(raw) /\ Get(raw).pytype = "Decision"
    THEN LET outcome == Get(raw).val
         IN IF outcome.decision_type = "create_steps"
            THEN DecisionSuccess(outcome.next_step_names, outcome.routing_context)
            ELSE SkipBranches(PyOrStr(outcome.reason, "No branches"), outcome.routing_context)
    ELSE WrapResult(raw)

\* batch_analyzer: lines 611-623 (and 583-595).
BatchAnalyzerTransformWrongTotal(raw, worker_template) ==
    IF ~IsNone(raw) /\ Get(raw).pytype = "StepHandlerResult" THEN Get(raw).val
    ELSE IF ~IsNone(raw) /\ Get(raw).pytype = "BatchConfig"
    THEN BatchAnalyzerSuccess(
             CreateBatchOutcome(Get(raw).val.batch_size, Get(raw).val.batch_size,
                                Get(raw).val.metadata),
             worker_template)
    ELSE WrapResult(raw)

BatchAnalyzerTransformRejectingEmpty(raw, worker_template) ==
    IF ~IsNone(raw) /\ Get(raw).pytype = "StepHandlerResult" THEN Get(raw).val
    ELSE IF ~IsNone(raw) /\ Get(raw).pytype = "BatchConfig"
    THEN IF Get(raw).val.total_items = 0
         THEN Failure("no items", "VALIDATION_ERROR", FALSE, <<>>)
         ELSE BatchAnalyzerSuccess(
                  CreateBatchOutcome(Get(raw).val.total_items, Get(raw).val.batch_size,
                                     Get(raw).val.metadata),
                  worker_template)
    ELSE WrapResult(raw)

BatchAnalyzerTransform(raw, worker_template) ==
    IF ~IsNone(raw) /\ Get(raw).pytype = "StepHandlerResult" THEN Get(raw).val
    ELSE IF ~IsNone(raw) /\ Get(raw).pytype = "BatchConfig"
    THEN BatchAnalyzerSuccess(
             CreateBatchOutcome(Get(raw).val.total_items, Get(raw).val.batch_size,
                                Get(raw).val.metadata),
             worker_template)
    ELSE WrapResult(raw)

\* The transformer of each generated handler class.
Transform(handler, raw) ==
    IF handler.decorator = "decision_handler" THEN DecisionTransform(raw)
    ELSE IF handler.decorator = "batch_analyzer"
    THEN BatchAnalyzerTransform(raw, handler.worker_template)
    ELSE WrapResult(raw)

\* The except clauses of call(): `except (PermanentError, RetryableError,
\* TaskerError)` and `except Exception` in step_handler and api_handler
\* (lines 280-283, 298-301, 761-764, 783-786), `except Exception` alone in
\* the others (501, 531, 596, 624, 679, 696).
CatchesTaskerErrorsOnly(handler, exc) ==
    IsInstance(exc, "TaskerError")

Catches(handler, exc) ==
    IF handler.decorator \in {"step_handler", "api_handler"}
    THEN \/ IsInstance(exc, "PermanentError") \/ IsInstance(exc, "RetryableError")
         \/ IsInstance(exc, "TaskerError")
         \/ IsInstance(exc, "Exception")
    ELSE IsInstance(exc, "Exception")

(***************************************************************************)
(* User functions.  An arbitrary decorated function is its outcome for     *)
(* the invocation at hand (a returned object or a raised exception); the   *)
(* two analyzers of the DSL examples are computed as their code does.      *)
(***************************************************************************)
Return(value) == [tag |-> "return", value |-> value]
Raise(exc) == [tag |-> "raise", exc |-> exc]

\* context.get_input_or(key, default)
GetInputOr(context, key, default) ==
    IF IsNone(GetInput(context, key)) THEN default ELSE Get(GetInput(context, key))

\* step_config.get(key, default) on `context.step_config or {}`
ConfigGet(context, key, default) ==
    IF IsNone(context.step_config[key]) THEN default ELSE Get(context.step_config[key])

\* checkpoint_yield_handlers.py, lines 29-43
CheckpointYieldAnalyzer(context) ==
    LET total_items == GetInputOr(context, "total_items", PyInt(DefaultTotalItems)).val
    IN IF total_items <= 0
       THEN Return(Some(BatchConfig(0, 1, <<>>)))
       ELSE Return(Some(BatchConfig(total_items, total_items, <<"checkpoint_yield">>)))

\* csv_analyzer without the worker cap: the configured batch_size is kept
\* whatever max_workers says.
CsvAnalyzerUncapped(kwargs, context, fs) ==
    LET csv_file_path == kwargs["csv_file_path"]
        batch_size == ConfigGet(context, "batch_size", DefaultBatchSize)
        row_count == fs.row_count
        num_batches == (row_count + batch_size - 1) \div batch_size
        actual_workers == num_batches
        effective_batch_size == (row_count + actual_workers - 1) \div actual_workers
    IN IF ~Truthy(csv_file_path)
       THEN Return(Some(PyResult(Failure("csv_file_path is required", "validation_error",
                                         FALSE, <<>>))))
       ELSE IF ~fs.exists THEN Return(Some(BatchConfig(0, batch_size, <<>>)))
       ELSE IF ~fs.readable THEN Return(Some(BatchConfig(0, batch_size, <<>>)))
       ELSE IF row_count = 0 THEN Return(Some(BatchConfig(0, batch_size, <<>>)))
       ELSE Return(Some(BatchConfig(row_count, effective_batch_size, <<"csv">>)))

\* csv_analyzer keeping the target: the recomputed size is used only when it
\* is larger than the configured batch_size.
CsvAnalyzerKeepingTarget(kwargs, context, fs) ==
    LET csv_file_path == kwargs["csv_file_path"]
        batch_size == ConfigGet(context, "batch_size", DefaultBatchSize)
        max_workers == ConfigGet(context, "max_workers", DefaultMaxWorkers)
        row_count == fs.row_count
        num_batches == (row_count + batch_size - 1) \div batch_size
        actual_workers == Min(num_batches, max_workers)
        recomputed == (row_count + actual_workers - 1) \div actual_workers
        effective_batch_size == IF recomputed > batch_size THEN recomputed ELSE batch_size
    IN IF ~Truthy(csv_file_path)
       THEN Return(Some(PyResult(Failure("csv_file_path is required", "validation_error",
                                         FALSE, <<>>))))
       ELSE IF ~fs.exists THEN Return(Some(BatchConfig(0, batch_size, <<>>)))
       ELSE IF ~fs.readable THEN Return(Some(BatchConfig(0, batch_size, <<>>)))
       ELSE IF row_count = 0 THEN Return(Some(BatchConfig(0, batch_size, <<>>)))
       ELSE Return(Some(BatchConfig(row_count, effective_batch_size, <<"csv">>)))

\* batch_processing_handlers.py, lines 33-75.  fs is the file system the
\* function sees: [exists, readable, row_count] of the file at csv_file_path.
CsvAnalyzer(kwargs, context, fs) ==
    LET csv_file_path == kwargs["csv_file_path"]
        batch_size == ConfigGet(context, "batch_size", DefaultBatchSize)
        max_workers == ConfigGet(context, "max_workers", DefaultMaxWorkers)
        row_count == fs.row_count
        num_batches == (row_count + batch_size - 1) \div batch_size
        actual_workers == Min(num_batches, max_workers)
        effective_batch_size == (row_count + actual_workers - 1) \div actual_workers
    IN IF ~Truthy(csv_file_path)
       THEN Return(Some(PyResult(Failure("csv_file_path is required", "validation_error",
                                         FALSE, <<>>))))
       ELSE IF ~fs.exists THEN Return(Some(BatchConfig(0, batch_size, <<>>)))
       ELSE IF ~fs.readable THEN Return(Some(BatchConfig(0, batch_size, <<>>)))
       ELSE IF row_count = 0 THEN Return(Some(BatchConfig(0, batch_size, <<>>)))
       ELSE Return(Some(BatchConfig(row_count, effective_batch_size, <<"csv">>)))

\* fn(**kwargs)
FnOutcome(fn, kwargs, context) ==
    IF fn.name = "checkpoint_yield_analyzer" THEN CheckpointYieldAnalyzer(context)
    ELSE IF fn.name = "csv_analyzer" THEN CsvAnalyzer(kwargs, context, fn.fs)
    ELSE fn.outcome

(***************************************************************************)
(* functional.py: call() of the generated handler classes                  *)
(***************************************************************************)
NoOutcome == [kind |-> "none"]

\* The except clauses: a caught exception becomes a Failure, any other
\* leaves call().
HandleException(handler, exc, at, fn_invoked, kwargs) ==
    IF Catches(handler, exc)
    THEN [result |-> WrapException(exc), escaped |-> None, raised |-> Some(exc),
          raised_at |-> at, fn_invoked |-> fn_invoked, kwargs |-> kwargs, raw |-> None]
    ELSE [result |-> NoOutcome, escaped |-> Some(exc), raised |-> Some(exc),
          raised_at |-> at, fn_invoked |-> fn_invoked, kwargs |-> kwargs, raw |-> None]

\* The body of call(): _inject_args, the call of the user function, the
\* transformer, all inside one try (lines 276-283, 294-301, 483-502,
\* 513-532, 580-597, 608-625, 674-680, 691-697, 756-764, 778-786).
HandlerRun(handler, context, fn) ==
    LET inj == InjectArgs(handler, context)
    IN IF ~IsNone(inj.raised)
       THEN HandleException(handler, Get(inj.raised), inj.at, FALSE, inj.kwargs)
       ELSE LET out == FnOutcome(fn, inj.kwargs, context)
            IN IF out.tag = "raise"
               THEN HandleException(handler, out.exc, "fn", TRUE, inj.kwargs)
               ELSE [result |-> Transform(handler, out.value), escaped |-> None,
                     raised |-> None, raised_at |-> "none", fn_invoked |-> TRUE,
                     kwargs |-> inj.kwargs, raw |-> out.value]

(***************************************************************************)
(* CheckpointYieldWorkerDslHandler                                         *)
(***************************************************************************)

\* _inject_failure(items_processed, cursor, permanent)
InjectFailure(items_processed, cursor, permanent) ==
    IF permanent
    THEN Failure(<<"Injected permanent failure after", items_processed>>,
                 "PERMANENT_ERROR", FALSE,
                 [items_processed |-> items_processed, cursor_at_failure |-> cursor,
                  failure_type |-> "permanent"])
    ELSE Failure(<<"Injected transient failure after", items_processed>>,
                 "RETRYABLE_ERROR", TRUE,
                 [items_processed |-> items_processed, cursor_at_failure |-> cursor,
                  failure_type |-> "transient"])

\* Lines 80-91: where an invocation starts, from the checkpoint in its context.
ResumeStateLosingCount(context, batch_inputs) ==
    IF context.has_checkpoint
    THEN [start_cursor |-> OrInt(context.checkpoint_cursor, batch_inputs.start_cursor),
          accumulated |-> OrDict(context.accumulated_results, EmptyAccumulated),
          total_processed |-> 0]
    ELSE [start_cursor |-> batch_inputs.start_cursor,
          accumulated |-> EmptyAccumulated,
          total_processed |-> 0]

ResumeStateIgnoringCursor(context, batch_inputs) ==
    IF context.has_checkpoint
    THEN [start_cursor |-> batch_inputs.start_cursor,
          accumulated |-> EmptyAccumulated,
          total_processed |-> 0]
    ELSE [start_cursor |-> batch_inputs.start_cursor,
          accumulated |-> EmptyAccumulated,
          total_processed |-> 0]

\* Resumes at the checkpoint's cursor and count but starts the accumulated
\* results afresh.
ResumeStateDroppingAccumulated(context, batch_inputs) ==
    IF context.has_checkpoint
    THEN [start_cursor |-> OrInt(context.checkpoint_cursor, batch_inputs.start_cursor),
          accumulated |-> EmptyAccumulated,
          total_processed |-> context.checkpoint_items_processed]
    ELSE [start_cursor |-> batch_inputs.start_cursor,
          accumulated |-> EmptyAccumulated,
          total_processed |-> 0]

ResumeState(context, batch_inputs) ==
    IF context.has_checkpoint
    THEN [start_cursor |-> OrInt(context.checkpoint_cursor, batch_inputs.start_cursor),
          accumulated |-> OrDict(context.accumulated_results, EmptyAccumulated),
          total_processed |-> context.checkpoint_items_processed]
    ELSE [start_cursor |-> batch_inputs.start_cursor,
          accumulated |-> EmptyAccumulated,
          total_processed |-> 0]

\* The condition without the attempt test.
FailureInjectedAnyAttempt(env, total_processed) ==
    /\ ~IsNone(env.fail_after_items)
    /\ total_processed >= Get(env.fail_after_items)

\* The condition with a strict threshold: `total_processed > fail_after_items`.
FailureInjectedPastThreshold(env, total_processed) ==
    /\ ~IsNone(env.fail_after_items)
    /\ total_processed > Get(env.fail_after_items)
    /\ env.current_attempt = env.fail_on_attempt

\* The condition without the item threshold.
FailureInjectedBelowThreshold(env, total_processed) ==
    /\ ~IsNone(env.fail_after_items)
    /\ env.current_attempt = env.fail_on_attempt

\* Lines 102-106: the failure-injection condition at the top of the loop.
FailureInjected(env, total_processed) ==
    /\ ~IsNone(env.fail_after_items)
    /\ total_processed >= Get(env.fail_after_items)
    /\ env.current_attempt = env.fail_on_attempt

\* The item loop yielding at the interval without the test
\* `current_cursor < end_cursor`.
RECURSIVE ProcessItemsYieldingAtEnd(_, _, _, _, _)
\* The item loop yielding one item late: `items_in_chunk > items_per_checkpoint`.
RECURSIVE ProcessItemsYieldingLate(_, _, _, _, _)
ProcessItemsYieldingLate(current_cursor, items_in_chunk, total_processed, accumulated, env) ==
    IF ~(current_cursor < env.end_cursor)
    THEN [result |-> BatchWorkerSuccess(
                         total_processed, total_processed, 0,
                         [running_total |-> accumulated.running_total,
                          item_ids |-> accumulated.item_ids,
                          final_cursor |-> current_cursor,
                          checkpoints_used |-> total_processed \div env.items_per_checkpoint]),
          accumulated |-> accumulated]
    ELSE IF FailureInjected(env, total_processed)
    THEN [result |-> InjectFailure(total_processed, current_cursor, env.permanent_failure),
          accumulated |-> accumulated]
    ELSE LET value == current_cursor + 1
             acc2 == [running_total |-> accumulated.running_total + value,
                      item_ids |-> Append(accumulated.item_ids, ItemId(current_cursor))]
             cursor2 == current_cursor + 1
             chunk2 == items_in_chunk + 1
             total2 == total_processed + 1
         IN IF chunk2 > env.items_per_checkpoint /\ cursor2 < env.end_cursor
            THEN [result |-> CheckpointYield(cursor2, total2, acc2), accumulated |-> acc2]
            ELSE ProcessItemsYieldingLate(cursor2, chunk2, total2, acc2, env)

ProcessItemsYieldingAtEnd(current_cursor, items_in_chunk, total_processed, accumulated, env) ==
    IF ~(current_cursor < env.end_cursor)
    THEN [result |-> BatchWorkerSuccess(
                         total_processed, total_processed, 0,
                         [running_total |-> accumulated.running_total,
                          item_ids |-> accumulated.item_ids,
                          final_cursor |-> current_cursor,
                          checkpoints_used |-> total_processed \div env.items_per_checkpoint]),
          accumulated |-> accumulated]
    ELSE IF FailureInjected(env, total_processed)
    THEN [result |-> InjectFailure(total_processed, current_cursor, env.permanent_failure),
          accumulated |-> accumulated]
    ELSE LET value == current_cursor + 1
             acc2 == [running_total |-> accumulated.running_total + value,
                      item_ids |-> Append(accumulated.item_ids, ItemId(current_cursor))]
             cursor2 == current_cursor + 1
             chunk2 == items_in_chunk + 1
             total2 == total_processed + 1
         IN IF chunk2 >= env.items_per_checkpoint
            THEN [result |-> CheckpointYield(cursor2, total2, acc2), accumulated |-> acc2]
            ELSE ProcessItemsYieldingAtEnd(cursor2, chunk2, total2, acc2, env)

\* Lines 100-137: the item loop and the final success.  The value is the
\* returned result together with the accumulated dict as the loop left it
\* (the dict is updated in place).
RECURSIVE ProcessItems(_, _, _, _, _)
ProcessItems(current_cursor, items_in_chunk, total_processed, accumulated, env) ==
    IF ~(current_cursor < env.end_cursor)
    THEN [result |-> BatchWorkerSuccess(
                         total_processed, total_processed, 0,
                         [running_total |-> accumulated.running_total,
                          item_ids |-> accumulated.item_ids,
                          final_cursor |-> current_cursor,
                          checkpoints_used |-> total_processed \div env.items_per_checkpoint]),
          accumulated |-> accumulated]
    ELSE IF FailureInjected(env, total_processed)
    THEN [result |-> InjectFailure(total_processed, current_cursor, env.permanent_failure),
          accumulated |-> accumulated]
    ELSE LET value == current_cursor + 1
             acc2 == [running_total |-> accumulated.running_total + value,
                      item_ids |-> Append(accumulated.item_ids, ItemId(current_cursor))]
             cursor2 == current_cursor + 1
             chunk2 == items_in_chunk + 1
             total2 == total_processed + 1
         IN IF chunk2 >= env.items_per_checkpoint /\ cursor2 < env.end_cursor
            THEN [result |-> CheckpointYield(cursor2, total2, acc2), accumulated |-> acc2]
            ELSE ProcessItems(cursor2, chunk2, total2, acc2, env)

\* call(context) that keeps the checkpoint's count and accumulated results
\* but starts the loop at range start.
CheckpointYieldWorkerCallRestarting(context, batch_inputs_opt, task_inputs) ==
    IF IsNone(batch_inputs_opt)
    THEN [result |-> Failure(<<"No batch inputs found">>, "VALIDATION_ERROR", FALSE, <<>>),
          accumulated |-> EmptyAccumulated]
    ELSE LET batch_inputs == Get(batch_inputs_opt)
             resume == ResumeState(context, batch_inputs)
             env == [end_cursor |-> batch_inputs.end_cursor,
                     items_per_checkpoint |-> task_inputs.items_per_checkpoint,
                     fail_after_items |-> task_inputs.fail_after_items,
                     fail_on_attempt |-> task_inputs.fail_on_attempt,
                     permanent_failure |-> task_inputs.permanent_failure,
                     current_attempt |-> context.retry_count + 1]
         IN ProcessItems(batch_inputs.start_cursor, 0, resume.total_processed,
                         resume.accumulated, env)

\* call(context): lines 55-137.  handle_no_op_worker is taken to find no
\* placeholder: the claims are about workers that own a cursor range.
CheckpointYieldWorkerCall(context, batch_inputs_opt, task_inputs) ==
    IF IsNone(batch_inputs_opt)
    THEN [result |-> Failure(<<"No batch inputs found">>, "VALIDATION_ERROR", FALSE, <<>>),
          accumulated |-> EmptyAccumulated]
    ELSE LET batch_inputs == Get(batch_inputs_opt)
             resume == ResumeState(context, batch_inputs)
             env == [end_cursor |-> batch_inputs.end_cursor,
                     items_per_checkpoint |-> task_inputs.items_per_checkpoint,
                     fail_after_items |-> task_inputs.fail_after_items,
                     fail_on_attempt |-> task_inputs.fail_on_attempt,
                     permanent_failure |-> task_inputs.permanent_failure,
                     current_attempt |-> context.retry_count + 1]
         IN ProcessItems(resume.start_cursor, 0, resume.total_processed,
                         resume.accumulated, env)

(***************************************************************************)
(* One invocation of a generated handler.                                  *)
(***************************************************************************)
Decorators == {"step_handler", "decision_handler", "batch_analyzer", "batch_worker",
               "api_handler"}

\* @depends_on declarations: cart="validate_cart" (plain) and
\* approval=("get_approval", ApprovalResult) (typed), each declared or not.
PlainDep == [step |-> "validate_cart", typed |-> FALSE]
TypedDep == [step |-> "get_approval", typed |-> TRUE]
DepMaps ==
    { [p \in ps |-> IF p = "cart" THEN PlainDep ELSE TypedDep] : ps \in SUBSET {"cart", "approval"} }

Steps == {"validate_cart", "get_approval"}

\* @inputs declarations: string keys, or one model class.
KeyInputs(keys) == [mode |-> "keys", keys |-> keys, model |-> "none"]
ModelInputs(model) == [mode |-> "model", keys |-> {}, model |-> model]
InputDecls ==
    { KeyInputs(ks) : ks \in {{}, {"ticket_id"}, {"ticket_id", "reason"}} }
      \cup { ModelInputs(m) : m \in {"RefundInput", "ValidatedRefundInput"} }

InputKeys == {"ticket_id", "customer_id", "reason"}

NoStepConfig == [batch_size |-> None, max_workers |-> None]
NoFs == [exists |-> FALSE, readable |-> FALSE, row_count |-> 0]

UserFn(outcome) == [name |-> "user", outcome |-> outcome, fs |-> NoFs]
NamedFn(name, fs) == [name |-> name, outcome |-> Return(None), fs |-> fs]

\* What an arbitrary user function may do.
UserExceptions ==
    { Exc("PermanentError", "Invalid input", Some(FALSE)),
      Exc("PermanentError", "Invalid input", None),
      Exc("RetryableError", "Service unavailable", Some(TRUE)),
      Exc("RetryableError", "Service unavailable", None),
      Exc("TaskerError", "handler error", None),
      Exc("TaskerError", "handler error", Some(TRUE)),
      Exc("TaskerError", "handler error", Some(FALSE)),
      Exc("ValueError", "Something went wrong", None),
      Exc("TypeError", "unexpected keyword argument", Some(FALSE)) }

UserReturns ==
    { None,
      Some(PyResult(Success(PyDict(<<"direct">>), <<>>))),
      Some(PyResult(Failure("declined", "PERMANENT_ERROR", FALSE, <<>>))),
      Some(PyDict(<<"processed">>)),
      Some(PyModel("RefundResultModel", <<"ticket_id">>)),
      Some(PyInt(42)),
      Some(DecisionRoute(<<"a", "b">>, <<"x", 1>>)),
      Some(DecisionRoute(<<"b", "a">>, <<>>)),
      Some(DecisionSkip("no items", <<>>)),
      Some(DecisionSkip("", <<"x", 1>>)),
      Some(BatchConfig(5, 2, <<>>)) }

UserOutcomes == { Return(v) : v \in UserReturns } \cup { Raise(e) : e \in UserExceptions }

HandlerFresh ==
    /\ h_phase = "ready"
    /\ h_result = NoOutcome
    /\ h_run = [result |-> NoOutcome, escaped |-> None, raised |-> None,
                raised_at |-> "none", fn_invoked |-> FALSE, kwargs |-> <<>>, raw |-> None]

HandlerInit ==
    /\ h_handler \in [decorator : Decorators, is_async : BOOLEAN, dep_map : DepMaps,
                      inputs : InputDecls, worker_template : {"process_batch"}]
    /\ h_context \in [dependency_results : [Steps -> {None, Some(PyDict(<<"total">>))}],
                      input_data : [InputKeys -> {None, Some(PyStr("v"))}],
                      step_config : {NoStepConfig}]
    /\ h_fn \in { UserFn(o) : o \in UserOutcomes }
    /\ HandlerFresh

(***************************************************************************)
(* The aggregator, the subscriber and the Worker singleton at rest, for    *)
(* the specifications of the other machines.                               *)
(***************************************************************************)
AggregatorIdle ==
    /\ ag_deps = <<>>
    /\ ag_phase = "idle"
    /\ ag_result = NoOutcome

SubscriberIdle ==
    /\ sb_result = NoOutcome
    /\ sb_env = <<>>
    /\ sb_phase = "idle"
    /\ sb_calls = <<>>
    /\ sb_raised = None

NoOperation == [op |-> "none", target |-> 0, returned |-> None, raised |-> None, calls |-> <<>>]

AllStopped == [ffi |-> FALSE, bridge |-> FALSE]

LifecycleFresh ==
    /\ lc_instance = None
    /\ lc_workers = <<>>
    /\ lc_components = AllStopped
    /\ lc_last = NoOperation

ConcurrentIdle ==
    /\ cw_inputs = <<>>
    /\ cw_workers = <<>>
    /\ cw_handler = <<>>

\* A function no decorator was applied to, and no class generated for it.
RegistrationIdle ==
    /\ rg_fn = [depends_on |-> <<>>, dep_models |-> {}, inputs |-> <<>>, input_model |-> None]
    /\ rg_handler = None
    /\ rg_last = [op |-> "none"]

\* No file analysed and no processor step created.
ProcessorIdle ==
    /\ cp_file = <<>>
    /\ cp_dependency = None
    /\ cp_workers = <<>>

\* No thread has called Worker.start().
StarterIdle == cs_threads = <<>>

OthersIdle ==
    /\ AggregatorIdle /\ SubscriberIdle /\ LifecycleFresh /\ ConcurrentIdle
    /\ RegistrationIdle /\ ProcessorIdle /\ StarterIdle

\* The machine of the handler call at rest, for the other specifications.
HandlerIdle ==
    /\ h_handler = [decorator |-> "step_handler", is_async |-> FALSE,
                    dep_map |-> <<>>, inputs |-> KeyInputs({}),
                    worker_template |-> "process_batch"]
    /\ h_context = [dependency_results |-> <<>>, input_data |-> <<>>,
                    step_config |-> NoStepConfig]
    /\ h_fn = UserFn(Return(None))
    /\ HandlerFresh

\* The analyzers: a function that returns BatchConfig(T, B), and the two
\* analyzers of the DSL examples with the inputs they read.
AnalyzerContexts(keys, inputs, configs) ==
    [dependency_results : {<<>>},
     input_data : [keys -> inputs],
     step_config : configs]

AnalyzerInit ==
    /\ \/ /\ h_fn \in { UserFn(Return(Some(BatchConfig(t, b, <<>>)))) :
                          t \in 0..MaxItems, b \in 1..MaxBatch }
          /\ h_context \in AnalyzerContexts({}, {None}, {NoStepConfig})
          /\ h_handler \in [decorator : {"batch_analyzer"}, is_async : BOOLEAN,
                            dep_map : {<<>>}, inputs : {KeyInputs({})},
                            worker_template : {"process_batch"}]
       \/ /\ h_fn = NamedFn("checkpoint_yield_analyzer", NoFs)
          /\ h_context \in AnalyzerContexts(
                 {"total_items"}, {None} \cup { Some(PyInt(t)) : t \in (-1)..MaxItems },
                 {NoStepConfig})
          /\ h_handler \in [decorator : {"batch_analyzer"}, is_async : BOOLEAN,
                            dep_map : {<<>>}, inputs : {KeyInputs({})},
                            worker_template : {"checkpoint_yield_batch_dsl_py"}]
       \/ /\ h_fn \in { NamedFn("csv_analyzer", fs) :
                          fs \in [exists : BOOLEAN, readable : BOOLEAN,
                                  row_count : 0..MaxItems] }
          /\ h_context \in AnalyzerContexts(
                 {"csv_file_path"}, {None, Some(PyStr("")), Some(PyStr("/data/rows.csv"))},
                 [batch_size : {None} \cup { Some(b) : b \in 1..MaxBatch },
                  max_workers : {None} \cup { Some(w) : w \in 1..MaxWorkers }])
          /\ h_handler \in [decorator : {"batch_analyzer"}, is_async : {FALSE},
                            dep_map : {<<>>}, inputs : {KeyInputs({"csv_file_path"})},
                            worker_template : {"process_csv_batch_dsl_py"}]
    /\ HandlerFresh

\* call(context) of a sync handler runs to its result; of an async handler
\* it returns the coroutine, whose body has not run yet.
Finish(run) ==
    /\ h_run' = run
    /\ h_result' = run.result
    /\ h_phase' = IF IsNone(run.escaped) THEN "returned" ELSE "escaped"

Call ==
    /\ h_phase = "ready"
    /\ IF h_handler.is_async
       THEN /\ h_phase' = "awaiting"
            /\ UNCHANGED <<h_result, h_run>>
       ELSE Finish(HandlerRun(h_handler, h_context, h_fn))
    /\ UNCHANGED <<h_handler, h_context, h_fn>>
    /\ UNCHANGED <<worker_vars, aggregator_vars, subscriber_vars, lifecycle_vars, concurrent_vars, registration_vars, processor_vars, starter_vars>>

\* An awaited call() whose handler lets a raised fault through.
AwaitLosingFault ==
    /\ h_phase = "awaiting"
    /\ LET run == HandlerRun(h_handler, h_context, h_fn)
       IN IF IsNone(run.raised)
          THEN Finish(run)
          ELSE Finish([run EXCEPT !.result = NoOutcome, !.escaped = run.raised])
    /\ UNCHANGED <<h_handler, h_context, h_fn>>
    /\ UNCHANGED <<worker_vars, aggregator_vars, subscriber_vars, lifecycle_vars, concurrent_vars, registration_vars, processor_vars, starter_vars>>

\* The event loop drives the coroutine of an async handler to its result.
Await ==
    /\ h_phase = "awaiting"
    /\ Finish(HandlerRun(h_handler, h_context, h_fn))
    /\ UNCHANGED <<h_handler, h_context, h_fn>>
    /\ UNCHANGED <<worker_vars, aggregator_vars, subscriber_vars, lifecycle_vars, concurrent_vars, registration_vars, processor_vars, starter_vars>>

(***************************************************************************)
(* The orchestrator around the worker (external collaborator, spec 4.5,    *)
(* 5 and 6): it reattaches the stored checkpoint verbatim, re-invokes      *)
(* after a checkpoint, and retries a retryable failure from the last       *)
(* stored checkpoint with retry_count + 1.                                 *)
(***************************************************************************)
MakeContext(stored, retry_count) ==
    IF IsNone(stored)
    THEN [has_checkpoint |-> FALSE, checkpoint_cursor |-> None,
          accumulated_results |-> None, checkpoint_items_processed |-> 0,
          retry_count |-> retry_count]
    ELSE [has_checkpoint |-> TRUE, checkpoint_cursor |-> Some(Get(stored).cursor),
          accumulated_results |-> Some(Get(stored).accumulated_results),
          checkpoint_items_processed |-> Get(stored).items_processed,
          retry_count |-> retry_count]

\* The CheckpointState the orchestrator stores for a Checkpoint outcome.
CheckpointOf(outcome) ==
    [cursor |-> outcome.cursor, items_processed |-> outcome.items_processed,
     accumulated_results |-> outcome.accumulated_results]

WorkerRanges ==
    { [start_cursor |-> s, end_cursor |-> s + n] : s \in 0..MaxStart, n \in 0..MaxLen }

WorkerTaskInputs ==
    [items_per_checkpoint : 1..MaxInterval,
     fail_after_items : {None} \cup { Some(f) : f \in 0..MaxLen },
     fail_on_attempt : 1..MaxFailAttempt,
     permanent_failure : BOOLEAN]

WorkerInit ==
    /\ HandlerIdle
    /\ OthersIdle
    /\ wk_batch_inputs \in {None} \cup { Some(r) : r \in WorkerRanges }
    /\ wk_task_inputs \in WorkerTaskInputs
    /\ wk_retry_count \in 0..1
    /\ wk_stored = None
    /\ wk_context = MakeContext(None, wk_retry_count)
    /\ wk_outcome = NoOutcome
    /\ wk_phase = "pending"
    /\ wk_yields = 0
    /\ wk_last_attempt_yield = -1
    /\ wk_failures = 0

\* The orchestrator dispatches the worker with the stored checkpoint reattached.
Dispatch ==
    /\ wk_phase = "pending"
    /\ wk_context' = MakeContext(wk_stored, wk_retry_count)
    /\ wk_outcome' = NoOutcome
    /\ wk_phase' = "running"
    /\ UNCHANGED <<handler_vars, aggregator_vars, subscriber_vars, lifecycle_vars, concurrent_vars, registration_vars, processor_vars, starter_vars>>
    /\ UNCHANGED <<wk_batch_inputs, wk_task_inputs, wk_retry_count, wk_stored,
                   wk_yields, wk_last_attempt_yield, wk_failures>>

\* One invocation of the worker's call().
WorkerCall ==
    /\ wk_phase = "running"
    /\ LET out == CheckpointYieldWorkerCall(wk_context, wk_batch_inputs, wk_task_inputs)
       IN /\ wk_outcome' = out.result
          /\ wk_context' =
                IF wk_context.has_checkpoint /\ ~IsNone(wk_context.accumulated_results)
                     /\ ~IsNone(wk_batch_inputs)
                THEN [wk_context EXCEPT !.accumulated_results = Some(out.accumulated)]
                ELSE wk_context
          /\ wk_yields' = IF out.result.kind = "checkpoint" /\ wk_yields <= MaxLen
                          THEN wk_yields + 1 ELSE wk_yields
          /\ wk_last_attempt_yield' =
                IF out.result.kind = "checkpoint" THEN out.result.cursor
                ELSE wk_last_attempt_yield
          /\ wk_failures' = IF out.result.kind = "failure" THEN wk_failures + 1 ELSE wk_failures
    /\ wk_phase' = "returned"
    /\ UNCHANGED <<handler_vars, aggregator_vars, subscriber_vars, lifecycle_vars, concurrent_vars, registration_vars, processor_vars, starter_vars>>
    /\ UNCHANGED <<wk_batch_inputs, wk_task_inputs, wk_retry_count, wk_stored>>

\* The orchestrator stores the yielded checkpoint and schedules the resume.
PersistCheckpoint ==
    /\ wk_phase = "returned"
    /\ wk_outcome.kind = "checkpoint"
    /\ wk_stored' = Some(CheckpointOf(wk_outcome))
    /\ wk_phase' = "pending"
    /\ UNCHANGED <<handler_vars, aggregator_vars, subscriber_vars, lifecycle_vars, concurrent_vars, registration_vars, processor_vars, starter_vars>>
    /\ UNCHANGED <<wk_batch_inputs, wk_task_inputs, wk_retry_count, wk_context,
                   wk_outcome, wk_yields, wk_last_attempt_yield, wk_failures>>

\* The orchestrator reschedules a retryable failure as the next attempt.
Retry ==
    /\ wk_phase = "returned"
    /\ wk_outcome.kind = "failure"
    /\ wk_outcome.retryable
    /\ wk_retry_count < MaxRetries
    /\ wk_retry_count' = wk_retry_count + 1
    /\ wk_last_attempt_yield' = -1
    /\ wk_phase' = "pending"
    /\ UNCHANGED <<handler_vars, aggregator_vars, subscriber_vars, lifecycle_vars, concurrent_vars, registration_vars, processor_vars, starter_vars>>
    /\ UNCHANGED <<wk_batch_inputs, wk_task_inputs, wk_stored, wk_context,
                   wk_outcome, wk_yields, wk_failures>>

\* The step is finished: success, a permanent failure, or retries exhausted.
Complete ==
    /\ wk_phase = "returned"
    /\ \/ wk_outcome.kind = "success"
       \/ /\ wk_outcome.kind = "failure"
          /\ (~wk_outcome.retryable \/ wk_retry_count >= MaxRetries)
    /\ wk_phase' = "done"
    /\ UNCHANGED <<handler_vars, aggregator_vars, subscriber_vars, lifecycle_vars, concurrent_vars, registration_vars, processor_vars, starter_vars>>
    /\ UNCHANGED <<wk_batch_inputs, wk_task_inputs, wk_retry_count, wk_stored,
                   wk_context, wk_outcome, wk_yields, wk_last_attempt_yield, wk_failures>>

\* The worker machine at rest, for the other specifications.
WorkerIdle ==
    /\ wk_batch_inputs = None
    /\ wk_task_inputs = [items_per_checkpoint |-> 1, fail_after_items |-> None,
                         fail_on_attempt |-> 1, permanent_failure |-> FALSE]
    /\ wk_retry_count = 0
    /\ wk_stored = None
    /\ wk_context = MakeContext(None, 0)
    /\ wk_outcome = NoOutcome
    /\ wk_phase = "done"
    /\ wk_yields = 0
    /\ wk_last_attempt_yield = -1
    /\ wk_failures = 0

WorkerNext == Dispatch \/ WorkerCall \/ PersistCheckpoint \/ Retry \/ Complete

\* One call of a generated handler, over every registration, context and
\* user-function outcome of the bounded sets.
Init ==
    /\ HandlerInit
    /\ WorkerIdle
    /\ OthersIdle

Next == Call \/ Await

Spec == Init /\ [][Next]_vars

\* One call of a @batch_analyzer handler.
InitAnalyzer ==
    /\ AnalyzerInit
    /\ WorkerIdle
    /\ OthersIdle

SpecAnalyzer == InitAnalyzer /\ [][Next]_vars

SpecWorker == WorkerInit /\ [][WorkerNext]_vars

\* The orchestrator keeps scheduling: every enabled step is eventually taken.
SpecWorkerFair == WorkerInit /\ [][WorkerNext]_vars /\ WF_vars(WorkerNext)

(***************************************************************************)
(* Claims about the checkpoint-yield worker.                               *)
(***************************************************************************)
WorkerHasRange == ~IsNone(wk_batch_inputs)
WorkerStart == Get(wk_batch_inputs).start_cursor
WorkerEnd == Get(wk_batch_inputs).end_cursor

\* A single invocation over the range that never yields (its interval is
\* longer than the range) and injects no failure.
UninterruptedRun(range) ==
    CheckpointYieldWorkerCall(
        MakeContext(None, 0), Some(range),
        [items_per_checkpoint |-> (range.end_cursor - range.start_cursor) + 1,
         fail_after_items |-> None, fail_on_attempt |-> 1,
         permanent_failure |-> FALSE]).result

SameTotals(a, b) ==
    /\ a.kind = "success" /\ b.kind = "success"
    /\ a.items_processed = b.items_processed
    /\ a.batch_metadata.running_total = b.batch_metadata.running_total
    /\ a.batch_metadata.item_ids = b.batch_metadata.item_ids
    /\ a.batch_metadata.final_cursor = b.batch_metadata.final_cursor

\* The example of the spec: interval 25 over [0, 60); a single pass over
\* the 60 items totals 1 + 2 + ... + 60 and lists item_0000 .. item_0059.
ExampleRange == [start_cursor |-> 0, end_cursor |-> 60]
ExampleInputs == [items_per_checkpoint |-> 25, fail_after_items |-> None,
                  fail_on_attempt |-> 1, permanent_failure |-> FALSE]
ExampleFirst ==
    CheckpointYieldWorkerCall(MakeContext(None, 0), Some(ExampleRange), ExampleInputs).result
ExampleSecond ==
    CheckpointYieldWorkerCall(MakeContext(Some(CheckpointOf(ExampleFirst)), 0),
                              Some(ExampleRange), ExampleInputs).result
ExampleThird ==
    CheckpointYieldWorkerCall(MakeContext(Some(CheckpointOf(ExampleSecond)), 0),
                              Some(ExampleRange), ExampleInputs).result
ExampleHolds ==
    /\ ExampleFirst.kind = "checkpoint" /\ ExampleFirst.cursor = 25
    /\ ExampleSecond.kind = "checkpoint" /\ ExampleSecond.cursor = 50
    /\ ExampleThird.kind = "success" /\ ExampleThird.batch_metadata.final_cursor = 60
    /\ ExampleThird.items_processed = 60
    /\ ExampleThird.batch_metadata.running_total = (60 * 61) \div 2
    /\ ExampleThird.batch_metadata.item_ids = [i \in 1..60 |-> ItemId(i - 1)]

\* C1 (checkpoint transparency): a chain of invocations, each resumed from
\* the previous Checkpoint reattached verbatim, never fails when no failure
\* is injected, and the Success that ends it reports the items_processed,
\* running_total, item_ids and final_cursor of a single invocation over the
\* same range that never yields; with interval 25 over [0, 60) the chain
\* yields at 25 and 50 and completes at 60.
C1_CheckpointTransparency ==
    /\ (WorkerHasRange /\ wk_outcome.kind = "success")
          => SameTotals(wk_outcome, UninterruptedRun(Get(wk_batch_inputs)))
    /\ (WorkerHasRange /\ IsNone(wk_task_inputs.fail_after_items))
          => /\ wk_outcome.kind # "failure"
             /\ (wk_phase = "done" => wk_outcome.kind = "success")
    /\ ExampleHolds

\* A chain that yielded twice and then completed.
C1_Witness ==
    /\ wk_phase = "done" /\ wk_outcome.kind = "success"
    /\ wk_yields >= 2 /\ wk_failures = 0
    /\ WorkerEnd - WorkerStart >= 3

C3_Case ==
    /\ WorkerHasRange
    /\ ~IsNone(wk_task_inputs.fail_after_items)
    /\ Get(wk_task_inputs.fail_after_items) < WorkerEnd - WorkerStart
    /\ wk_task_inputs.fail_on_attempt = 1
    /\ ~wk_task_inputs.permanent_failure

\* C3 (failure-injection determinism): with fail_after_items = F below the
\* range length and fail_on_attempt = 1, an invocation of the first attempt
\* (retry_count 0) never returns Success, a Failure it returns is retryable
\* and reports exactly F items, its Checkpoints have cursor <= start + F;
\* invocations of the retry (retry_count 1) never fail, and the step ends
\* only with Success, on the retry.
C3_FailureInjectionDeterminism ==
    C3_Case =>
      LET F == Get(wk_task_inputs.fail_after_items) IN
      /\ (wk_outcome.kind # "none" /\ wk_context.retry_count = 0) =>
            /\ wk_outcome.kind # "success"
            /\ (wk_outcome.kind = "failure" =>
                  /\ wk_outcome.retryable
                  /\ wk_outcome.error_type = "RETRYABLE_ERROR"
                  /\ wk_outcome.metadata.items_processed = F
                  /\ wk_outcome.metadata.cursor_at_failure = WorkerStart + F)
            /\ (wk_outcome.kind = "checkpoint" => wk_outcome.cursor <= WorkerStart + F)
      /\ (wk_retry_count = 0 => wk_last_attempt_yield <= WorkerStart + F)
      /\ (~IsNone(wk_stored) /\ wk_failures = 0 /\ wk_retry_count = 0)
            => Get(wk_stored).cursor <= WorkerStart + F
      /\ (wk_outcome.kind # "none" /\ wk_context.retry_count >= 1) =>
            wk_outcome.kind \in {"checkpoint", "success"}
      /\ (wk_phase = "done" =>
            /\ wk_outcome.kind = "success"
            /\ wk_context.retry_count >= 1)

\* The first attempt yielded, then failed after F items; the retry resumed
\* from the stored checkpoint and completed.
C3_Witness ==
    /\ C3_Case
    /\ wk_phase = "done" /\ wk_outcome.kind = "success"
    /\ wk_failures = 1 /\ wk_context.retry_count = 1
    /\ ~IsNone(wk_stored)
    /\ Get(wk_task_inputs.fail_after_items) >= 2

\* C6 (worker chain termination): with the orchestrator re-invoking after
\* each Checkpoint, a pending chain eventually returns Success or Failure.
C6_ChainTerminates ==
    (wk_phase = "pending")
       ~> (wk_phase = "returned" /\ wk_outcome.kind \in {"success", "failure"})

\* A chain that returned its terminal result after three checkpoints.
C6_Witness ==
    /\ wk_phase = "returned" /\ wk_outcome.kind \in {"success", "failure"}
    /\ wk_yields >= 3

(***************************************************************************)
(* Claims about the batch analyzer.                                        *)
(***************************************************************************)
HandlerFinished == h_phase \in {"returned", "escaped"}

\* The user function returned a BatchConfig.
ReturnedBatchConfig ==
    /\ HandlerFinished
    /\ ~IsNone(h_run.raw)
    /\ Get(h_run.raw).pytype = "BatchConfig"

ConfigTotal == Get(h_run.raw).val.total_items
ConfigBatch == Get(h_run.raw).val.batch_size
Outcome == h_result.result.val.batch_processing_outcome
Ranges == Outcome.cursor_configs

\* The item indexes a list of cursor ranges covers.
Covered(ranges) ==
    UNION { ranges[i].start_cursor .. (ranges[i].end_cursor - 1) : i \in 1..Len(ranges) }

\* C2 (partition completeness): the cursor ranges emitted for a returned
\* BatchConfig(T, B), T >= 0 and B >= 1, are half-open and non-empty, ordered
\* by start, contiguous from 0, pairwise disjoint, and cover exactly [0, T).
C2_PartitionCompleteness ==
    (ReturnedBatchConfig /\ ConfigTotal >= 0 /\ ConfigBatch >= 1) =>
        /\ h_result.kind = "success"
        /\ \A i \in 1..Len(Ranges) : Ranges[i].start_cursor < Ranges[i].end_cursor
        /\ \A i \in 1..Len(Ranges) : \A j \in 1..Len(Ranges) :
              i < j => /\ Ranges[i].start_cursor < Ranges[j].start_cursor
                       /\ Ranges[i].end_cursor <= Ranges[j].start_cursor
        /\ (Len(Ranges) > 0 => Ranges[1].start_cursor = 0)
        /\ \A i \in 1..(Len(Ranges) - 1) : Ranges[i + 1].start_cursor = Ranges[i].end_cursor
        /\ Covered(Ranges) = 0..(ConfigTotal - 1)

\* Seven items in batches of three: three ranges, the last one short.
C2_Witness ==
    /\ ReturnedBatchConfig /\ ConfigTotal = 7 /\ ConfigBatch = 3
    /\ Len(Ranges) = 3 /\ Ranges[3] = [start_cursor |-> 6, end_cursor |-> 7]

\* ceil(t / b) as the least n with n * b >= t.
Ceil(t, b) == CHOOSE n \in 0..t : n * b >= t /\ \A m \in 0..(n - 1) : m * b < t

\* The example of the spec: 250 items in batches of 100.
Example250 == BatchAnalyzerTransform(Some(BatchConfig(250, 100, <<>>)), "process_batch")

\* C7: for a returned BatchConfig(T, B) with T >= 1 and B >= 1 the result is
\* a Success whose batch_processing_outcome has type create_batches, the
\* declared worker template and total_items = T, with worker_count =
\* number of cursor_configs = ceil(T / B), every range but the last of
\* length B; 250 items by 100 give [0,100), [100,200), [200,250).
C7_AnalyzerOutcome ==
    /\ (ReturnedBatchConfig /\ ConfigTotal >= 1 /\ ConfigBatch >= 1) =>
        /\ h_result.kind = "success"
        /\ Outcome.type = "create_batches"
        /\ Outcome.worker_template_name = h_handler.worker_template
        /\ Outcome.total_items = ConfigTotal
        /\ Outcome.worker_count = Len(Ranges)
        /\ Len(Ranges) = Ceil(ConfigTotal, ConfigBatch)
        /\ h_result.result.val.worker_count = Len(Ranges)
        /\ \A i \in 1..(Len(Ranges) - 1) :
              Ranges[i].end_cursor - Ranges[i].start_cursor = ConfigBatch
    /\ Example250.result.val.batch_processing_outcome.cursor_configs =
          << [start_cursor |-> 0, end_cursor |-> 100],
             [start_cursor |-> 100, end_cursor |-> 200],
             [start_cursor |-> 200, end_cursor |-> 250] >>
    /\ Example250.result.val.batch_processing_outcome.worker_count = 3

\* csv_analyzer capped by max_workers: 7 rows, batch_size 2, at most 3 workers.
C7_Witness ==
    /\ ReturnedBatchConfig
    /\ h_fn.name = "csv_analyzer" /\ h_fn.fs.row_count = 7
    /\ h_context.step_config.batch_size = Some(2)
    /\ h_context.step_config.max_workers = Some(3)
    /\ h_result.kind = "success" /\ Outcome.worker_count = 3

\* The analyzer found nothing to process.
FoundZeroItems ==
    \/ /\ h_fn.name = "checkpoint_yield_analyzer"
       /\ ~IsNone(GetInput(h_context, "total_items"))
       /\ Get(GetInput(h_context, "total_items")).val <= 0
    \/ /\ h_fn.name = "csv_analyzer"
       /\ Truthy(GetInput(h_context, "csv_file_path"))
       /\ (~h_fn.fs.exists \/ ~h_fn.fs.readable \/ h_fn.fs.row_count = 0)
    \/ /\ h_fn.name = "user"
       /\ h_fn.outcome.tag = "return"
       /\ ~IsNone(h_fn.outcome.value)
       /\ Get(h_fn.outcome.value).pytype = "BatchConfig"
       /\ Get(h_fn.outcome.value).val.total_items = 0

\* C8: an analyzer that finds zero items (or a non-positive count) returns
\* Success, not Failure, with total_items 0 and no cursor ranges.
C8_ZeroItemsIsSuccess ==
    (HandlerFinished /\ FoundZeroItems) =>
        /\ h_phase = "returned"
        /\ h_result.kind = "success"
        /\ Outcome.total_items = 0
        /\ Outcome.cursor_configs = <<>>
        /\ Outcome.worker_count = 0

\* checkpoint_yield_analyzer given total_items = -1.
C8_Witness ==
    /\ h_phase = "returned" /\ FoundZeroItems
    /\ h_fn.name = "checkpoint_yield_analyzer"
    /\ GetInput(h_context, "total_items") = Some(PyInt(-1))
    /\ h_result.kind = "success"

(***************************************************************************)
(* Claims about handler dispatch.                                          *)
(***************************************************************************)
Raised == Get(h_run.raised)

\* C4 (fault classification): when argument injection or the user function
\* raises, call() returns a Failure: not retryable and PERMANENT for a
\* PermanentError, retryable and RETRYABLE for a RetryableError, the
\* exception's own retryable attribute (True without one) for any other
\* TaskerError, and retryable for every other exception.
C4_FaultClassification ==
    (HandlerFinished /\ ~IsNone(h_run.raised)) =>
        /\ h_result.kind = "failure"
        /\ (Raised.cls = "PermanentError" =>
              ~h_result.retryable /\ h_result.error_type = "PERMANENT_ERROR")
        /\ (Raised.cls = "RetryableError" =>
              h_result.retryable /\ h_result.error_type = "RETRYABLE_ERROR")
        /\ (Raised.cls = "TaskerError" =>
              h_result.retryable =
                  (IF IsNone(Raised.retryable) THEN TRUE ELSE Get(Raised.retryable)))
        /\ (Raised.cls \notin {"PermanentError", "RetryableError", "TaskerError"} =>
              h_result.retryable)

\* A TypeError carrying retryable = False, raised by the user function.
C4_Witness ==
    /\ h_phase = "returned" /\ h_run.raised_at = "fn"
    /\ h_run.raised = Some(Exc("TypeError", "unexpected keyword argument", Some(FALSE)))
    /\ h_result.kind = "failure" /\ h_result.retryable

DeclaredDeps == DOMAIN h_handler.dep_map
DepMissing(p) == IsNone(GetDependencyResult(h_context, h_handler.dep_map[p].step))

\* C9 (missing dependency tolerance): a @depends_on entry, plain or typed,
\* whose step has no result makes no stage of injection raise on its
\* account: its parameter resolves to None, and the user function is
\* invoked whenever the handler's own input model does not reject.
C9_MissingDependencyTolerance ==
    HandlerFinished =>
        \A p \in DeclaredDeps :
            DepMissing(p) =>
                /\ h_run.raised_at # "deps"
                /\ p \in DOMAIN h_run.kwargs
                /\ IsNone(h_run.kwargs[p])
                /\ (h_run.raised_at # "inputs" => h_run.fn_invoked)

\* A typed dependency without a result: the function ran with approval = None.
C9_Witness ==
    /\ h_phase = "returned"
    /\ "approval" \in DeclaredDeps /\ h_handler.dep_map["approval"].typed
    /\ DepMissing("approval")
    /\ h_run.fn_invoked /\ IsNone(h_run.kwargs["approval"])

DeclaredInputs ==
    IF h_handler.inputs.mode = "model" THEN ModelFields[h_handler.inputs.model]
    ELSE h_handler.inputs.keys

SomeInputMissing == \E k \in DeclaredInputs : IsNone(GetInput(h_context, k))

\* C10 as stated: a declared input missing from the context, declared by
\* key or through a model class, never makes argument resolution raise,
\* and the user function is invoked.
C10_MissingInputNeverRaises ==
    (HandlerFinished /\ SomeInputMissing) =>
        /\ h_run.raised_at # "inputs"
        /\ h_run.fn_invoked

\* The model's own validation rejects the values the context holds.
ModelRejects(model) ==
    \/ \E f \in RequiredFields[model] : IsNone(GetInput(h_context, f))
    \/ \E f \in ValidatedFields[model] : ~Truthy(GetInput(h_context, f))

\* C10 amended: inputs declared by key never make resolution raise; each
\* missing key resolves to None and the user function is invoked.  With
\* @inputs(Model) each missing field reaches the model constructor as None:
\* the user function is invoked with the model when the model accepts the
\* values, and otherwise the model's fault is raised during injection, the
\* user function is not invoked and call() returns a Failure.
C10_MissingInputAmended ==
    (HandlerFinished /\ SomeInputMissing) =>
        IF h_handler.inputs.mode = "keys"
        THEN /\ h_run.raised_at # "inputs"
             /\ h_run.fn_invoked
             /\ \A k \in h_handler.inputs.keys :
                   h_run.kwargs[k] = GetInput(h_context, k)
        ELSE IF ModelRejects(h_handler.inputs.model)
        THEN /\ h_run.raised_at = "inputs"
             /\ ~h_run.fn_invoked
             /\ h_result.kind = "failure"
        ELSE /\ h_run.raised_at # "inputs"
             /\ h_run.fn_invoked
             /\ \A f \in DeclaredInputs :
                   Get(h_run.kwargs["inputs"]).val.fields[f] = GetInput(h_context, f)

\* RefundInput without `reason`: the function ran with inputs.reason = None.
C10_Witness ==
    /\ h_phase = "returned"
    /\ h_handler.inputs = ModelInputs("RefundInput")
    /\ IsNone(GetInput(h_context, "reason"))
    /\ h_run.fn_invoked
    /\ IsNone(Get(h_run.kwargs["inputs"]).val.fields["reason"])

\* The handler declares @inputs(Model) and the model rejects the context's values.
InputModelRejects ==
    /\ h_handler.inputs.mode = "model"
    /\ ModelRejects(h_handler.inputs.model)

RoutedSteps == { <<"a", "b">>, <<"b", "a">> }
RoutingContexts == { <<>>, <<"x", 1>> }
SkipReasons == { "no items", "" }

DecisionHandlerReturned(decision) ==
    /\ HandlerFinished
    /\ h_handler.decorator = "decision_handler"
    /\ h_run.fn_invoked
    /\ h_fn.outcome = Return(Some(decision))

RouteNormalized(steps, ctx) ==
    /\ h_phase = "returned"
    /\ h_result.kind = "success"
    /\ h_result.result.val.decision_point_outcome.type = "create_steps"
    /\ h_result.result.val.decision_point_outcome.step_names = steps
    /\ h_result.result.val.routing_context = ctx

SkipNormalized(reason, ctx) ==
    /\ h_phase = "returned"
    /\ h_result.kind = "success"
    /\ h_result.result.val.decision_point_outcome.type = "no_branches"
    /\ h_result.result.val.reason = reason
    /\ h_result.result.val.routing_context = ctx

\* C12 as stated: Decision.route(steps, **ctx) becomes a Success of type
\* create_steps with step_names = steps in the same order and
\* routing_context = ctx; Decision.skip(reason, **ctx) becomes a Success of
\* type no_branches with that reason and routing_context = ctx.
C12_DecisionNormalization ==
    /\ \A steps \in RoutedSteps : \A ctx \in RoutingContexts :
          DecisionHandlerReturned(DecisionRoute(steps, ctx)) => RouteNormalized(steps, ctx)
    /\ \A reason \in SkipReasons : \A ctx \in RoutingContexts :
          DecisionHandlerReturned(DecisionSkip(reason, ctx)) => SkipNormalized(reason, ctx)

\* C12 amended: as stated for Decision.route and for Decision.skip with a
\* non-empty reason; Decision.skip with an empty reason becomes a Success
\* of type no_branches whose reason is "No branches".
C12_DecisionNormalizationAmended ==
    /\ \A steps \in RoutedSteps : \A ctx \in RoutingContexts :
          DecisionHandlerReturned(DecisionRoute(steps, ctx)) => RouteNormalized(steps, ctx)
    /\ \A reason \in SkipReasons : \A ctx \in RoutingContexts :
          DecisionHandlerReturned(DecisionSkip(reason, ctx)) =>
              SkipNormalized(IF reason = "" THEN "No branches" ELSE reason, ctx)

\* Decision.route(["b", "a"]) came back as step_names ["b", "a"].
C12_Witness ==
    /\ DecisionHandlerReturned(DecisionRoute(<<"b", "a">>, <<>>))
    /\ RouteNormalized(<<"b", "a">>, <<>>)

(***************************************************************************)
(* Claims about result normalization and the two execution shapes.         *)
(***************************************************************************)

\* The user function returned, and the decorator has no rule of its own
\* for the returned object.
ReturnedToWrapResult ==
    /\ HandlerFinished
    /\ h_run.fn_invoked
    /\ IsNone(h_run.raised)
    /\ ~(/\ h_handler.decorator = "decision_handler"
         /\ ~IsNone(h_run.raw) /\ Get(h_run.raw).pytype = "Decision")
    /\ ~(/\ h_handler.decorator = "batch_analyzer"
         /\ ~IsNone(h_run.raw) /\ Get(h_run.raw).pytype = "BatchConfig")

ReturnedType == IF IsNone(h_run.raw) THEN "NoneType" ELSE Get(h_run.raw).pytype

\* C15 (result normalization): a returned StepHandlerResult is the result
\* unchanged; a dict d becomes Success(d); a model object becomes Success
\* of its serialized dict; None becomes Success({}); any other value v
\* becomes Success({result: v}).
C15_ResultNormalization ==
    ReturnedToWrapResult =>
        /\ h_phase = "returned"
        /\ (ReturnedType = "StepHandlerResult" => h_result = Get(h_run.raw).val)
        /\ (ReturnedType = "dict" =>
              h_result = [kind |-> "success", result |-> Get(h_run.raw), metadata |-> <<>>])
        /\ (ReturnedType = "BaseModel" =>
              h_result = [kind |-> "success",
                          result |-> [pytype |-> "dict", val |-> Get(h_run.raw).val.fields],
                          metadata |-> <<>>])
        /\ (ReturnedType = "NoneType" =>
              h_result = [kind |-> "success",
                          result |-> [pytype |-> "dict", val |-> <<>>],
                          metadata |-> <<>>])
        /\ (ReturnedType \notin {"StepHandlerResult", "dict", "BaseModel", "NoneType"} =>
              h_result = [kind |-> "success",
                          result |-> [pytype |-> "dict", val |-> [result |-> Get(h_run.raw)]],
                          metadata |-> <<>>])

\* A function that returns nothing: Success({}).
C15_Witness ==
    /\ ReturnedToWrapResult
    /\ h_handler.decorator = "step_handler"
    /\ ReturnedType = "NoneType"
    /\ h_result = Success(PyDict(<<>>), <<>>)

\* What call() of the sync handler class generated for the same function
\* does on the same context.
SyncTwin == HandlerRun([h_handler EXCEPT !.is_async = FALSE], h_context, h_fn)

AnalyzerStepName == <<"analyze_items_dsl_py">>
WorkerPrefix == "checkpoint_yield_batch_dsl_py_"
WorkerStepNames == { <<WorkerPrefix, "001">>, <<WorkerPrefix, "002">> }
OtherStepNames == { AnalyzerStepName, <<"checkpoint_yield_batch_dsl_py">> }

\* name.startswith(prefix)
StartsWith(name, prefix) == Len(name) >= 1 /\ name[1] = prefix

\* d.get(key, default)
DictGet(d, key, default) == IF key \in DOMAIN d THEN d[key] ELSE default

\* Batchable.detect_aggregation_scenario(dependency_results, analyzer, prefix)
DetectAggregationScenario(dependency_results, analyzer_name, prefix) ==
    LET matching == { n \in DOMAIN dependency_results : StartsWith(n, prefix) }
    IN [is_no_batches |-> matching = {},
        batch_results |-> [n \in matching |-> dependency_results[n]],
        worker_count |-> Cardinality(matching)]

\* Batchable.no_batches_aggregation_result(summary)
NoBatchesAggregationResult(summary) == Success(PyDict(summary), <<>>)

ZeroTotals == [total_processed |-> 0, running_total |-> 0, item_count |-> 0,
               checkpoints_used |-> 0]

\* Lines 197-203 with `=` in place of `+=`: the totals of one worker only.
RECURSIVE FoldWorkersKeepingLast(_, _)
FoldWorkersKeepingLast(batch_results, totals) ==
    IF DOMAIN batch_results = {} THEN totals
    ELSE LET name == CHOOSE n \in DOMAIN batch_results : TRUE
             result == batch_results[name]
             rest == [n \in DOMAIN batch_results \ {name} |-> batch_results[n]]
             batch_metadata == DictGet(result, "batch_metadata", <<>>)
         IN IF result = <<>>
            THEN FoldWorkersKeepingLast(rest, totals)
            ELSE FoldWorkersKeepingLast(rest,
                     [total_processed |-> DictGet(result, "items_processed", 0),
                      running_total |-> DictGet(batch_metadata, "running_total", 0),
                      item_count |-> Len(DictGet(batch_metadata, "item_ids", <<>>)),
                      checkpoints_used |-> DictGet(batch_metadata, "checkpoints_used", 0)])

\* Lines 192-203: the loop over scenario.batch_results.  `if result:` skips
\* a None or empty result; all_item_ids is kept as its length.
RECURSIVE FoldWorkers(_, _)
FoldWorkers(batch_results, totals) ==
    IF DOMAIN batch_results = {} THEN totals
    ELSE LET name == CHOOSE n \in DOMAIN batch_results : TRUE
             result == batch_results[name]
             rest == [n \in DOMAIN batch_results \ {name} |-> batch_results[n]]
             batch_metadata == DictGet(result, "batch_metadata", <<>>)
         IN IF result = <<>>
            THEN FoldWorkers(rest, totals)
            ELSE FoldWorkers(rest,
                     [total_processed |->
                          totals.total_processed + DictGet(result, "items_processed", 0),
                      running_total |->
                          totals.running_total + DictGet(batch_metadata, "running_total", 0),
                      item_count |->
                          totals.item_count + Len(DictGet(batch_metadata, "item_ids", <<>>)),
                      checkpoints_used |->
                          totals.checkpoints_used
                              + DictGet(batch_metadata, "checkpoints_used", 0)])

\* call() with an error returned when there are no batches.
CheckpointYieldAggregatorCallRejectingNoBatches(dependency_results) ==
    LET scenario == DetectAggregationScenario(dependency_results, AnalyzerStepName,
                                              WorkerPrefix)
        totals == FoldWorkers(scenario.batch_results, ZeroTotals)
    IN IF scenario.is_no_batches
       THEN Failure("no batch results", "VALIDATION_ERROR", FALSE, <<>>)
       ELSE Success(PyDict([total_processed |-> totals.total_processed,
                            running_total |-> totals.running_total,
                            item_count |-> totals.item_count,
                            checkpoints_used |-> totals.checkpoints_used,
                            worker_count |-> scenario.worker_count,
                            test_passed |-> TRUE,
                            scenario |-> "with_batches"]), <<>>)

\* call(context): lines 174-215.
CheckpointYieldAggregatorCall(dependency_results) ==
    LET scenario == DetectAggregationScenario(dependency_results, AnalyzerStepName,
                                              WorkerPrefix)
        totals == FoldWorkers(scenario.batch_results, ZeroTotals)
    IN IF scenario.is_no_batches
       THEN NoBatchesAggregationResult([total_processed |-> 0, running_total |-> 0,
                                        test_passed |-> TRUE, scenario |-> "no_batches"])
       ELSE Success(PyDict([total_processed |-> totals.total_processed,
                            running_total |-> totals.running_total,
                            item_count |-> totals.item_count,
                            checkpoints_used |-> totals.checkpoints_used,
                            worker_count |-> scenario.worker_count,
                            test_passed |-> TRUE,
                            scenario |-> "with_batches"]), <<>>)

\* The result payload of a worker that processed [s, s + n) in one invocation.
WorkerPayload(s, n) ==
    LET r == CheckpointYieldWorkerCall(
                 MakeContext(None, 0), Some([start_cursor |-> s, end_cursor |-> s + n]),
                 [items_per_checkpoint |-> n + 1, fail_after_items |-> None,
                  fail_on_attempt |-> 1, permanent_failure |-> FALSE]).result
    IN [items_processed |-> r.items_processed, batch_metadata |-> r.batch_metadata]

\* What the context may hold for a worker step: no payload, a payload
\* without one of the fields, or the payload of a finished worker.
WorkerResultValues ==
    { <<>>, [items_processed |-> 2], [batch_metadata |-> [running_total |-> 3]] }
      \cup { WorkerPayload(s, n) : s \in 0..1, n \in 0..MaxAggItems }

AggregatorDependencyResults ==
    UNION { { [n \in ws \cup os |->
                  IF n \in ws THEN f[n] ELSE [batch_processing_outcome |-> "create_batches"]] :
                f \in [ws -> WorkerResultValues] } :
            ws \in SUBSET WorkerStepNames, os \in SUBSET OtherStepNames }

AggregatorInit ==
    /\ HandlerIdle
    /\ WorkerIdle
    /\ SubscriberIdle
    /\ LifecycleFresh
    /\ ConcurrentIdle
    /\ RegistrationIdle
    /\ ProcessorIdle
    /\ StarterIdle
    /\ ag_deps \in AggregatorDependencyResults
    /\ ag_phase = "ready"
    /\ ag_result = NoOutcome

\* One invocation of the aggregator's call().
AggregatorCall ==
    /\ ag_phase = "ready"
    /\ ag_result' = CheckpointYieldAggregatorCall(ag_deps)
    /\ ag_phase' = "returned"
    /\ UNCHANGED ag_deps
    /\ UNCHANGED <<handler_vars, worker_vars, subscriber_vars, lifecycle_vars, concurrent_vars, registration_vars, processor_vars, starter_vars>>

SpecAggregator == AggregatorInit /\ [][AggregatorCall]_vars

(***************************************************************************)
(* Claims about the aggregator.                                            *)
(***************************************************************************)
MatchingWorkers == { n \in DOMAIN ag_deps : n[1] = WorkerPrefix }

Summary == ag_result.result.val

\* What one matching worker result adds to a total: the field when the
\* result has it, nothing otherwise.
ItemsProcessedOf(n) ==
    IF "items_processed" \in DOMAIN ag_deps[n] THEN ag_deps[n].items_processed ELSE 0

RunningTotalOf(n) ==
    IF /\ "batch_metadata" \in DOMAIN ag_deps[n]
       /\ "running_total" \in DOMAIN ag_deps[n].batch_metadata
    THEN ag_deps[n].batch_metadata.running_total ELSE 0

\* The sum of f over at most two worker names.
SumOfWorkers(f(_)) ==
    LET first == <<WorkerPrefix, "001">>
        second == <<WorkerPrefix, "002">>
    IN (IF first \in MatchingWorkers THEN f(first) ELSE 0)
         + (IF second \in MatchingWorkers THEN f(second) ELSE 0)

\* C13 (no-batches aggregation): when no dependency result matches the
\* worker-name prefix, the aggregator returns Success, not Failure, with
\* the zero-valued summary: total_processed 0, running_total 0, scenario
\* no_batches.
C13_NoBatchesAggregation ==
    (ag_phase = "returned" /\ MatchingWorkers = {}) =>
        /\ ag_result.kind = "success"
        /\ Summary.total_processed = 0
        /\ Summary.running_total = 0
        /\ Summary.scenario = "no_batches"

\* Only the analyzer's result and a step whose name misses the prefix by
\* its last character are in the context.
C13_Witness ==
    /\ ag_phase = "returned"
    /\ DOMAIN ag_deps = OtherStepNames
    /\ ag_result.kind = "success" /\ Summary.scenario = "no_batches"

\* C14: when at least one worker result matches the prefix, the aggregator
\* returns Success with scenario with_batches, worker_count = the number
\* of matching results, total_processed = the sum of their items_processed
\* and running_total = the sum of their accumulated running_total.
C14_WithBatchesAggregation ==
    (ag_phase = "returned" /\ MatchingWorkers # {}) =>
        /\ ag_result.kind = "success"
        /\ Summary.scenario = "with_batches"
        /\ Summary.worker_count = Cardinality(MatchingWorkers)
        /\ Summary.total_processed = SumOfWorkers(ItemsProcessedOf)
        /\ Summary.running_total = SumOfWorkers(RunningTotalOf)

\* Two workers, over [0, 2) and [1, 3): 4 items, running total 3 + 5.
C14_Witness ==
    /\ ag_phase = "returned"
    /\ Cardinality(MatchingWorkers) = 2
    /\ ag_deps[<<WorkerPrefix, "001">>] = WorkerPayload(0, 2)
    /\ ag_deps[<<WorkerPrefix, "002">>] = WorkerPayload(1, 2)
    /\ Summary.total_processed = 4 /\ Summary.running_total = 8

(***************************************************************************)
(* StepExecutionSubscriber._submit_result, as test_ffi_safe_failure.py     *)
(* fixes it: the result is serialized (model_dump) in one try block and    *)
(* submitted (_complete_step_event) in another; a failure of either leads  *)
(* to the fallback path, which builds the safe-failure record and submits  *)
(* it.  The tests fix no behaviour for a primary submission that returns   *)
(* False, so the FFI never answers the primary submission that way here.   *)
(***************************************************************************)
FfiAccepted == "accepted"    \* _complete_step_event returns True
FfiRejected == "rejected"    \* _complete_step_event returns False
FfiRaises == "raises"        \* _complete_step_event raises

SerializationError == Exc("TypeError", "Cannot serialize complex type", None)
PrimaryTransportError == Exc("RuntimeError", "primary FFI failure", None)
FallbackTransportError == Exc("RuntimeError", "fallback also failed", None)
OrphanedError ==
    Exc("RuntimeError", "Both primary and fallback FFI submissions failed: step orphaned", None)

\* result.model_dump(mode="json") of the StepExecutionResult built from
\* the handler result.
SerializedResult(result, env) ==
    [record |-> "result",
     success |-> result.kind = "success",
     metadata |-> [execution_time_ms |-> env.execution_time_ms, worker_id |-> env.worker_id]]

\* _build_ffi_safe_failure(event, handler_result, error)
BuildFfiSafeFailure(result, env, error) ==
    [record |-> "safe_failure",
     success |-> FALSE,
     status |-> "error",
     error |-> [error_type |-> "FFI_SERIALIZATION_ERROR", retryable |-> FALSE,
                message |-> error.message],
     metadata |-> [execution_time_ms |-> 0, worker_id |-> env.worker_id,
                   retryable |-> FALSE,
                   custom |-> [original_success |-> result.kind = "success",
                               ffi_serialization_error |-> error.message]]]

\* The fallback path: build the safe-failure record and submit it; a
\* rejected fallback raises RuntimeError (step orphaned), a raising one
\* propagates.
SubmitFallback(result, env, error, calls_so_far) ==
    LET calls == Append(calls_so_far, BuildFfiSafeFailure(result, env, error))
    IN IF env.fallback = FfiAccepted THEN [calls |-> calls, raised |-> None]
       ELSE IF env.fallback = FfiRejected THEN [calls |-> calls, raised |-> Some(OrphanedError)]
       ELSE [calls |-> calls, raised |-> Some(FallbackTransportError)]

\* _submit_result with one try block around serialization and submission:
\* the unserialized result is still handed to the primary submission.
SubmitResultInOneBlock(result, env) ==
    LET primary == SerializedResult(result, env)
    IN IF env.primary = FfiAccepted /\ env.serializes
       THEN [calls |-> <<primary>>, raised |-> None]
       ELSE SubmitFallback(result, env,
                           IF env.serializes THEN PrimaryTransportError
                           ELSE SerializationError,
                           <<primary>>)

\* _submit_result(event, handler_result, execution_time_ms)
SubmitResult(result, env) ==
    IF ~env.serializes
    THEN SubmitFallback(result, env, SerializationError, <<>>)
    ELSE LET primary == SerializedResult(result, env)
         IN IF env.primary = FfiAccepted
            THEN [calls |-> <<primary>>, raised |-> None]
            ELSE SubmitFallback(result, env, PrimaryTransportError, <<primary>>)

SubscriberResults ==
    { Success(PyDict(<<"data">>), <<>>),
      Success(PyDict(<<>>), <<>>),
      Failure("declined", "PERMANENT_ERROR", FALSE, <<>>),
      Failure("timeout", "RETRYABLE_ERROR", TRUE, <<>>) }

SubscriberEnvs ==
    [serializes : BOOLEAN,
     primary : {FfiAccepted, FfiRaises},
     fallback : {FfiAccepted, FfiRejected, FfiRaises},
     execution_time_ms : {0, 100},
     worker_id : {"worker-001"}]

SubscriberInit ==
    /\ HandlerIdle
    /\ WorkerIdle
    /\ AggregatorIdle
    /\ LifecycleFresh
    /\ ConcurrentIdle
    /\ RegistrationIdle
    /\ ProcessorIdle
    /\ StarterIdle
    /\ sb_result \in SubscriberResults
    /\ sb_env \in SubscriberEnvs
    /\ sb_phase = "ready"
    /\ sb_calls = <<>>
    /\ sb_raised = None

\* One call of _submit_result.
SubmitResultCall ==
    /\ sb_phase = "ready"
    /\ LET out == SubmitResult(sb_result, sb_env)
       IN /\ sb_calls' = out.calls
          /\ sb_raised' = out.raised
          /\ sb_phase' = IF IsNone(out.raised) THEN "returned" ELSE "raised"
    /\ UNCHANGED <<sb_result, sb_env>>
    /\ UNCHANGED <<handler_vars, worker_vars, aggregator_vars, lifecycle_vars, concurrent_vars, registration_vars, processor_vars, starter_vars>>

SpecSubscriber == SubscriberInit /\ [][SubmitResultCall]_vars

(***************************************************************************)
(* Claims about the subscriber.                                            *)
(***************************************************************************)
SubmitResultFinished == sb_phase \in {"returned", "raised"}

\* C18: when serializing the step result fails, _submit_result does not
\* attempt the primary FFI submission: it makes exactly one submission,
\* the fallback safe-failure record, a non-retryable failure with
\* error_type FFI_SERIALIZATION_ERROR.
C18_SerializationFailureSkipsPrimary ==
    (SubmitResultFinished /\ ~sb_env.serializes) =>
        /\ Len(sb_calls) = 1
        /\ sb_calls[1].record = "safe_failure"
        /\ ~sb_calls[1].success
        /\ sb_calls[1].error.error_type = "FFI_SERIALIZATION_ERROR"
        /\ ~sb_calls[1].error.retryable

\* Serialization of a successful result failed; the fallback was accepted.
C18_Witness ==
    /\ sb_phase = "returned"
    /\ ~sb_env.serializes /\ sb_env.fallback = FfiAccepted
    /\ sb_result.kind = "success"
    /\ Len(sb_calls) = 1 /\ sb_calls[1].record = "safe_failure"

(***************************************************************************)
(* Worker (worker.py): the singleton lifecycle manager.  A Worker object   *)
(* is a record of its fields; lc_workers holds the objects created so far, *)
(* lc_instance is Worker._instance.  bootstrap_worker, stop_worker, the    *)
(* handler registry, the bridge, the subscriber and the poller are         *)
(* collaborators: a call to one of them either returns or raises, and the  *)
(* calls an operation makes are recorded in lc_last.                       *)
(***************************************************************************)
MaxWorkerObjects == 2

\* Worker.__init__
Worker_new ==
    [running |-> FALSE, bootstrapped |-> FALSE, bridge |-> FALSE,
     subscriber |-> "none", poller |-> "none", held |-> TRUE]

\* cls._instance is not None and cls._instance._running
InstanceRunning(instance, workers) ==
    ~IsNone(instance) /\ workers[Get(instance)].running

RECURSIVE DiscoverCalls(_)
DiscoverCalls(packages) ==
    IF packages = <<>> THEN <<>>
    ELSE <<"discover_handlers">> \o DiscoverCalls(Tail(packages))

\* The collaborator calls of Worker._start, in order.
StartCalls(packages) ==
    <<"bootstrap_worker", "bootstrap_handlers">> \o DiscoverCalls(packages)
        \o <<"bridge.start", "subscriber.start", "poller.start">>

Contains(calls, name) == \E i \in 1..Len(calls) : calls[i] = name

\* Worker._start on a new object; fail_at is the position of the call
\* that raises, 0 when none does.  A call that raises has no effect and
\* ends _start; the assignments before it stay.
Worker_start_internal(components, packages, fail_at) ==
    LET all == StartCalls(packages)
        made == IF fail_at = 0 THEN all ELSE SubSeq(all, 1, fail_at)
        done == IF fail_at = 0 THEN all ELSE SubSeq(all, 1, fail_at - 1)
    IN [worker |-> [running |-> fail_at = 0,
                    bootstrapped |-> Contains(done, "bootstrap_worker"),
                    bridge |-> Contains(done, "bridge.start"),
                    subscriber |-> IF Contains(done, "subscriber.start") THEN "started" ELSE "none",
                    poller |-> IF Contains(done, "poller.start") THEN "started" ELSE "none",
                    held |-> fail_at = 0],
        components |-> [ffi |-> components.ffi \/ Contains(done, "bootstrap_worker"),
                        bridge |-> components.bridge \/ Contains(done, "bridge.start")],
        calls |-> made,
        raised |-> IF fail_at = 0 THEN None
                   ELSE IF fail_at = 1
                        THEN Some(Exc("WorkerBootstrapError", "bootstrap_worker", None))
                        ELSE Some(Exc("RuntimeError", all[fail_at], None))]

\* Worker.start without the already-running check: every call builds and
\* starts a new Worker.
Worker_start_always_fresh(instance, workers, components, packages, fail_at) ==
    LET out == Worker_start_internal(components, packages, fail_at)
        id == Len(workers) + 1
    IN [instance |-> IF IsNone(out.raised) THEN Some(id) ELSE instance,
        workers |-> Append(workers, out.worker),
        components |-> out.components,
        returned |-> IF IsNone(out.raised) THEN Some(id) ELSE None,
        raised |-> out.raised,
        calls |-> out.calls]

\* Worker.start(handler_packages, config)
Worker_start(instance, workers, components, packages, fail_at) ==
    IF InstanceRunning(instance, workers)
    THEN [instance |-> instance, workers |-> workers, components |-> components,
          returned |-> instance, raised |-> None, calls |-> <<>>]
    ELSE LET out == Worker_start_internal(components, packages, fail_at)
             id == Len(workers) + 1
         IN [instance |-> IF IsNone(out.raised) THEN Some(id) ELSE instance,
             workers |-> Append(workers, out.worker),
             components |-> out.components,
             returned |-> IF IsNone(out.raised) THEN Some(id) ELSE None,
             raised |-> out.raised,
             calls |-> out.calls]

\* The stop calls in the order the components were started: bridge,
\* subscriber, poller, with stop_worker last.
StopCallsInStartOrder(w) ==
    (IF w.bridge THEN <<"bridge.stop">> ELSE <<>>)
        \o (IF w.subscriber # "none" THEN <<"subscriber.stop">> ELSE <<>>)
        \o (IF w.poller # "none" THEN <<"poller.stop">> ELSE <<>>)
        \o <<"stop_worker">>

\* The collaborator calls of a Worker.stop that passes its guard, in
\* order: the components the object holds, then stop_worker.
StopCalls(w) ==
    (IF w.poller # "none" THEN <<"poller.stop">> ELSE <<>>)
        \o (IF w.subscriber # "none" THEN <<"subscriber.stop">> ELSE <<>>)
        \o (IF w.bridge THEN <<"bridge.stop">> ELSE <<>>)
        \o <<"stop_worker">>

\* The body of Worker.stop after its guard; fail_at is the position of the
\* call that raises, 0 when none does.  _running is cleared first; a call
\* that raises has no effect and ends stop() before Worker._instance is
\* cleared.
StopRunning(id, instance, workers, components, fail_at) ==
    LET w == workers[id]
        all == StopCalls(w)
        made == IF fail_at = 0 THEN all ELSE SubSeq(all, 1, fail_at)
        done == IF fail_at = 0 THEN all ELSE SubSeq(all, 1, fail_at - 1)
    IN [instance |-> IF fail_at = 0 THEN None ELSE instance,
        workers |-> [workers EXCEPT ![id] =
                        [w EXCEPT !.running = FALSE,
                                  !.poller = IF Contains(done, "poller.stop")
                                             THEN "stopped" ELSE w.poller,
                                  !.subscriber = IF Contains(done, "subscriber.stop")
                                                 THEN "stopped" ELSE w.subscriber]],
        components |-> [ffi |-> components.ffi /\ ~Contains(done, "stop_worker"),
                        bridge |-> components.bridge /\ ~Contains(done, "bridge.stop")],
        raised |-> IF fail_at = 0 THEN None
                   ELSE Some(Exc("RuntimeError", all[fail_at], None)),
        calls |-> made]

\* Worker.stop without the `if not self._running: return` guard.
Worker_stop_unguarded(id, instance, workers, components, fail_at) ==
    StopRunning(id, instance, workers, components, fail_at)

\* Worker.stop()
Worker_stop(id, instance, workers, components, fail_at) ==
    IF ~workers[id].running
    THEN [instance |-> instance, workers |-> workers, components |-> components,
          raised |-> None, calls |-> <<>>]
    ELSE StopRunning(id, instance, workers, components, fail_at)

\* Worker.instance() without the _running test.
Worker_instance_unchecked(instance, workers) == instance

\* Worker.instance()
Worker_instance(instance, workers) ==
    IF InstanceRunning(instance, workers) THEN instance ELSE None

\* Worker.reset_instance(); an exception of stop() propagates before
\* cls._instance is cleared.
Worker_reset_instance(instance, workers, components, fail_at) ==
    IF IsNone(instance)
    THEN [instance |-> None, workers |-> workers, components |-> components,
          raised |-> None, calls |-> <<>>]
    ELSE LET out == Worker_stop(Get(instance), instance, workers, components, fail_at)
         IN [instance |-> IF IsNone(out.raised) THEN None ELSE out.instance,
             workers |-> out.workers, components |-> out.components,
             raised |-> out.raised, calls |-> out.calls]

HandlerPackages == { <<>>, <<"app.handlers">> }

LifecycleInit ==
    /\ HandlerIdle
    /\ WorkerIdle
    /\ AggregatorIdle
    /\ SubscriberIdle
    /\ LifecycleFresh
    /\ ConcurrentIdle
    /\ RegistrationIdle
    /\ ProcessorIdle
    /\ StarterIdle

\* Worker.start(handler_packages=packages); the call at position fail_at
\* of _start raises (0: none).
Start(packages, fail_at) ==
    /\ fail_at \in 0..Len(StartCalls(packages))
    /\ LET out == Worker_start(lc_instance, lc_workers, lc_components, packages, fail_at)
       IN /\ Len(out.workers) <= MaxWorkerObjects
          /\ lc_instance' = out.instance
          /\ lc_workers' = out.workers
          /\ lc_components' = out.components
          /\ lc_last' = [op |-> "start", target |-> 0, returned |-> out.returned,
                         raised |-> out.raised, calls |-> out.calls]
    /\ UNCHANGED <<handler_vars, worker_vars, aggregator_vars, subscriber_vars, concurrent_vars, registration_vars, processor_vars, starter_vars>>

\* Worker() built directly, never started.
Construct ==
    /\ Len(lc_workers) < MaxWorkerObjects
    /\ lc_workers' = Append(lc_workers, Worker_new)
    /\ lc_last' = [op |-> "construct", target |-> Len(lc_workers) + 1,
                   returned |-> Some(Len(lc_workers) + 1), raised |-> None, calls |-> <<>>]
    /\ UNCHANGED <<lc_instance, lc_components>>
    /\ UNCHANGED <<handler_vars, worker_vars, aggregator_vars, subscriber_vars, concurrent_vars, registration_vars, processor_vars, starter_vars>>

\* The number of collaborator calls a stop() of this object makes.
StopLength(w) == IF w.running THEN Len(StopCalls(w)) ELSE 0

\* worker.stop() on a Worker object the caller holds; the call at
\* position fail_at raises (0: none).
Stop(id, fail_at) ==
    /\ id \in 1..Len(lc_workers)
    /\ lc_workers[id].held
    /\ fail_at \in 0..StopLength(lc_workers[id])
    /\ LET out == Worker_stop(id, lc_instance, lc_workers, lc_components, fail_at)
       IN /\ lc_instance' = out.instance
          /\ lc_workers' = out.workers
          /\ lc_components' = out.components
          /\ lc_last' = [op |-> "stop", target |-> id, returned |-> None,
                         raised |-> out.raised, calls |-> out.calls]
    /\ UNCHANGED <<handler_vars, worker_vars, aggregator_vars, subscriber_vars, concurrent_vars, registration_vars, processor_vars, starter_vars>>

\* Worker.instance()
Instance ==
    /\ lc_last' = [op |-> "instance", target |-> 0,
                   returned |-> Worker_instance(lc_instance, lc_workers),
                   raised |-> None, calls |-> <<>>]
    /\ UNCHANGED <<lc_instance, lc_workers, lc_components>>
    /\ UNCHANGED <<handler_vars, worker_vars, aggregator_vars, subscriber_vars, concurrent_vars, registration_vars, processor_vars, starter_vars>>

\* Worker.reset_instance(); the call at position fail_at of the stop()
\* it makes raises (0: none).
ResetInstance(fail_at) ==
    /\ fail_at \in 0..(IF IsNone(lc_instance) THEN 0
                       ELSE StopLength(lc_workers[Get(lc_instance)]))
    /\ LET out == Worker_reset_instance(lc_instance, lc_workers, lc_components, fail_at)
       IN /\ lc_instance' = out.instance
          /\ lc_workers' = out.workers
          /\ lc_components' = out.components
          /\ lc_last' = [op |-> "reset_instance", target |-> 0, returned |-> None,
                         raised |-> out.raised, calls |-> out.calls]
    /\ UNCHANGED <<handler_vars, worker_vars, aggregator_vars, subscriber_vars, concurrent_vars, registration_vars, processor_vars, starter_vars>>

MaxStopCalls == Len(StopCalls([Worker_new EXCEPT !.bridge = TRUE, !.subscriber = "started",
                                                 !.poller = "started"]))

LifecycleNext ==
    \/ \E packages \in HandlerPackages : \E fail_at \in 0..Len(StartCalls(packages)) :
           Start(packages, fail_at)
    \/ Construct
    \/ \E id \in 1..Len(lc_workers) : \E fail_at \in 0..MaxStopCalls : Stop(id, fail_at)
    \/ Instance
    \/ \E fail_at \in 0..MaxStopCalls : ResetInstance(fail_at)

SpecLifecycle == LifecycleInit /\ [][LifecycleNext]_vars

(***************************************************************************)
(* Claims about the Worker lifecycle.                                      *)
(***************************************************************************)
\* C19: Worker.start() called while a Worker is running returns that same
\* instance and does not bootstrap the FFI layer, discover handlers or
\* start any component a second time: it makes no collaborator call and
\* changes neither the singleton, nor any Worker object, nor a component.
C19_StartWhileRunning ==
    [][(lc_last'.op = "start" /\ InstanceRunning(lc_instance, lc_workers)) =>
          /\ lc_last'.returned = lc_instance
          /\ IsNone(lc_last'.raised)
          /\ lc_last'.calls = <<>>
          /\ UNCHANGED <<lc_instance, lc_workers, lc_components>>]_vars

\* start() has just returned the running instance without a single call.
C19_Witness ==
    /\ lc_last.op = "start"
    /\ lc_last.calls = <<>>
    /\ InstanceRunning(lc_instance, lc_workers)
    /\ lc_last.returned = lc_instance

\* C20: Worker.stop() on a Worker that was never started or is already
\* stopped is a no-op: it stops no component, does not call stop_worker,
\* does not raise and leaves is_running false.
C20_StopIdempotent ==
    [][(lc_last'.op = "stop" /\ lc_last'.target \in 1..Len(lc_workers)
          /\ ~lc_workers[lc_last'.target].running) =>
          /\ lc_last'.calls = <<>>
          /\ IsNone(lc_last'.raised)
          /\ ~lc_workers'[lc_last'.target].running
          /\ UNCHANGED <<lc_instance, lc_workers, lc_components>>]_vars

\* stop() has just been called on a Worker that had been started and
\* stopped before, while another Worker is running.
C20_Witness ==
    /\ lc_last.op = "stop"
    /\ lc_last.calls = <<>>
    /\ lc_workers[lc_last.target].poller = "stopped"
    /\ InstanceRunning(lc_instance, lc_workers)


\* C21: after any sequence of start(), stop() and reset_instance() calls,
\* Worker.instance() is non-None only for a Worker that is currently
\* running; after stop() of the running Worker, Worker.instance() is None
\* (and Worker._instance is cleared when stop() completed); and a start()
\* taken while no Worker is running bootstraps first and, unless a call
\* raises, returns a new running Worker that is then the singleton.
C21_InstanceOnlyWhileRunning ==
    [][/\ (lc_last'.op = "instance" /\ ~IsNone(lc_last'.returned)) =>
              /\ lc_last'.returned = lc_instance'
              /\ lc_workers'[Get(lc_last'.returned)].running
       /\ (lc_last'.op = "stop" /\ lc_workers[lc_last'.target].running) =>
              /\ IsNone(Worker_instance(lc_instance', lc_workers'))
              /\ ~lc_workers'[lc_last'.target].running
              /\ IsNone(lc_last'.raised) => IsNone(lc_instance')
       /\ (lc_last'.op = "start" /\ ~InstanceRunning(lc_instance, lc_workers)) =>
              /\ lc_last'.calls # <<>> /\ lc_last'.calls[1] = "bootstrap_worker"
              /\ IsNone(lc_last'.raised) =>
                    /\ lc_last'.returned = Some(Len(lc_workers) + 1)
                    /\ lc_workers'[Len(lc_workers) + 1].running
                    /\ Worker_instance(lc_instance', lc_workers') = lc_last'.returned]_vars

\* A first Worker was started and stopped, a second start() has returned
\* a new running Worker, and Worker.instance() has just answered with it.
C21_Witness ==
    /\ lc_last.op = "instance"
    /\ lc_last.returned = Some(2)
    /\ lc_workers[1].poller = "stopped" /\ ~lc_workers[1].running
    /\ lc_workers[2].running


(***************************************************************************)
(* Further claims about the checkpoint-yield worker chain.                 *)
(***************************************************************************)
\* The items of [start, end), each once, in order.
ItemsOf(start, end) == [i \in 1..(end - start) |-> ItemId(start + i - 1)]

\* The sum of cursor + 1 over the cursors of [start, end).
TotalOf(start, end) == ((end * (end + 1)) - (start * (start + 1))) \div 2

\* C22 (no lost work, no double-processing): under every schedule of
\* checkpoint yields, injected failures and retries in which each
\* re-invocation resumes from the last stored Checkpoint (or from range
\* start if none was stored), a Success of the chain reports
\* items_processed = end - start, lists every item of [start, end) exactly
\* once in item_ids, and has the running_total of a single pass.
C22_NoLostWorkNoDoubleProcessing ==
    (WorkerHasRange /\ wk_outcome.kind = "success") =>
        /\ wk_outcome.items_processed = WorkerEnd - WorkerStart
        /\ wk_outcome.batch_metadata.item_ids = ItemsOf(WorkerStart, WorkerEnd)
        /\ wk_outcome.batch_metadata.running_total = TotalOf(WorkerStart, WorkerEnd)
        /\ \A i, j \in 1..Len(wk_outcome.batch_metadata.item_ids) :
              i # j => wk_outcome.batch_metadata.item_ids[i] # wk_outcome.batch_metadata.item_ids[j]

\* A chain that stored a checkpoint, processed further items, failed
\* before the next checkpoint, was retried from the stored checkpoint and
\* completed: the items after the checkpoint were processed twice.
C22_Witness ==
    /\ wk_phase = "done" /\ wk_outcome.kind = "success"
    /\ WorkerStart > 0
    /\ wk_failures >= 1 /\ wk_yields >= 1
    /\ ~IsNone(wk_task_inputs.fail_after_items)
    /\ Get(wk_task_inputs.fail_after_items) > wk_task_inputs.items_per_checkpoint
    /\ Get(wk_task_inputs.fail_after_items) % wk_task_inputs.items_per_checkpoint # 0


\* The last invocation returned a Failure built by _inject_failure.
InjectedFailure ==
    /\ wk_outcome.kind = "failure"
    /\ wk_outcome.error_type \in {"PERMANENT_ERROR", "RETRYABLE_ERROR"}

\* C23: an invocation returns an injected Failure only if fail_after_items
\* is configured, the number of items processed so far (those carried in
\* the reattached Checkpoint included) has reached fail_after_items, and
\* the attempt number retry_count + 1 equals fail_on_attempt; an invocation
\* of a Worker with a range that does not inject a Failure returns Success
\* or Checkpoint.
C23_FailureInjectedOnlyWhenConfigured ==
    /\ InjectedFailure =>
          /\ WorkerHasRange
          /\ ~IsNone(wk_task_inputs.fail_after_items)
          /\ wk_outcome.metadata.items_processed >= Get(wk_task_inputs.fail_after_items)
          /\ wk_outcome.metadata.items_processed >= wk_context.checkpoint_items_processed
          /\ wk_context.retry_count + 1 = wk_task_inputs.fail_on_attempt
    /\ (WorkerHasRange /\ wk_outcome.kind # "none" /\ ~InjectedFailure) =>
          wk_outcome.kind \in {"success", "checkpoint"}

\* A resumed invocation of the second attempt injected a Failure: the
\* threshold was reached with the items carried in its checkpoint.
C23_Witness ==
    /\ InjectedFailure
    /\ wk_context.has_checkpoint
    /\ wk_context.retry_count = 1
    /\ wk_context.checkpoint_items_processed >= 1
    /\ wk_outcome.metadata.items_processed = Get(wk_task_inputs.fail_after_items)


\* The cursor the last invocation started from (lines 80-91).
InvocationStart == ResumeState(wk_context, Get(wk_batch_inputs)).start_cursor

\* C24: every Checkpoint an invocation emits has a cursor strictly greater
\* than the cursor the invocation started from and strictly less than
\* range.end, and strictly greater than the cursor of the Checkpoint
\* stored before it: the cursors of successive Checkpoints of a chain
\* strictly increase.
C24_CheckpointCursorBounds ==
    (WorkerHasRange /\ wk_outcome.kind = "checkpoint") =>
        /\ wk_outcome.cursor > InvocationStart
        /\ wk_outcome.cursor < WorkerEnd
        /\ wk_outcome.cursor > WorkerStart
        /\ (wk_phase = "returned" /\ ~IsNone(wk_stored)) =>
              wk_outcome.cursor > Get(wk_stored).cursor

\* A resumed invocation has just emitted the last possible Checkpoint of
\* its range, one item before the end.
C24_Witness ==
    /\ WorkerHasRange
    /\ wk_phase = "returned" /\ wk_outcome.kind = "checkpoint"
    /\ ~IsNone(wk_stored)
    /\ wk_outcome.cursor = WorkerEnd - 1
    /\ WorkerStart > 0


\* The cursor the last invocation stopped at.
InvocationEnd ==
    IF wk_outcome.kind = "checkpoint" THEN wk_outcome.cursor
    ELSE IF wk_outcome.kind = "success" THEN wk_outcome.batch_metadata.final_cursor
    ELSE wk_outcome.metadata.cursor_at_failure

\* The number of items the last invocation processed.
InvocationItems == InvocationEnd - InvocationStart

\* C25 (bounded per-invocation work): with checkpoint interval K >= 1 no
\* invocation processes more than K items; an invocation that processed K
\* items returned Checkpoint with cursor < end or Success with cursor = end.
C25_BoundedInvocationWork ==
    (WorkerHasRange /\ wk_outcome.kind # "none") =>
        /\ InvocationItems >= 0
        /\ InvocationItems <= wk_task_inputs.items_per_checkpoint
        /\ InvocationItems = wk_task_inputs.items_per_checkpoint =>
              \/ wk_outcome.kind = "checkpoint" /\ wk_outcome.cursor < WorkerEnd
              \/ wk_outcome.kind = "success"
                    /\ wk_outcome.batch_metadata.final_cursor = WorkerEnd

\* A resumed invocation processed exactly K >= 2 items and reached the end
\* of its range.
C25_Witness ==
    /\ WorkerHasRange
    /\ wk_outcome.kind = "success"
    /\ wk_context.has_checkpoint
    /\ wk_task_inputs.items_per_checkpoint >= 2
    /\ InvocationItems = wk_task_inputs.items_per_checkpoint


\* A CheckpointState of the range [start, end) that holds exactly the
\* work on [start, cursor).
ConsistentCheckpoint(cp, start) ==
    /\ cp.items_processed = cp.cursor - start
    /\ cp.accumulated_results.running_total = TotalOf(start, cp.cursor)
    /\ cp.accumulated_results.item_ids = ItemsOf(start, cp.cursor)

\* C26: every Checkpoint emitted for a range [start, end) is internally
\* consistent: items_processed = cursor - start, running_total is the sum
\* over the items of [start, cursor) and item_ids lists each of them once,
\* in order; so is the Checkpoint the orchestrator has stored.
C26_CheckpointConsistency ==
    /\ (WorkerHasRange /\ wk_outcome.kind = "checkpoint") =>
          ConsistentCheckpoint(CheckpointOf(wk_outcome), WorkerStart)
    /\ (WorkerHasRange /\ ~IsNone(wk_stored)) =>
          ConsistentCheckpoint(Get(wk_stored), WorkerStart)

\* The second Checkpoint of a chain, emitted on a retry after a failure,
\* for a range that does not start at 0.
C26_Witness ==
    /\ WorkerHasRange /\ WorkerStart > 0
    /\ wk_phase = "returned" /\ wk_outcome.kind = "checkpoint"
    /\ ~IsNone(wk_stored)
    /\ wk_failures >= 1
    /\ wk_outcome.items_processed >= 2


\* C27: an invocation does not modify the context it was given: when it
\* returns, the context's checkpoint cursor, checkpoint items_processed
\* and accumulated_results hold the values they had before the call.
C27_ContextUnmodified ==
    [][(wk_phase = "running" /\ wk_phase' = "returned") =>
          /\ wk_context'.has_checkpoint = wk_context.has_checkpoint
          /\ wk_context'.checkpoint_cursor = wk_context.checkpoint_cursor
          /\ wk_context'.checkpoint_items_processed = wk_context.checkpoint_items_processed
          /\ wk_context'.accumulated_results = wk_context.accumulated_results]_vars

\* A resumed invocation has returned and the accumulated_results of its
\* context are no longer those of the checkpoint that was reattached.
C27_Witness ==
    /\ WorkerHasRange
    /\ wk_phase = "returned"
    /\ wk_context.has_checkpoint /\ ~IsNone(wk_stored)
    /\ wk_context.checkpoint_cursor = Some(Get(wk_stored).cursor)
    /\ wk_context.accumulated_results # Some(Get(wk_stored).accumulated_results)


(***************************************************************************)
(* The workers of one BatchConfig, each with its own cursor range, its own *)
(* stored checkpoint and its own context, invoked in any interleaving      *)
(* through one handler object.  call() works on its locals and on the      *)
(* context it is given (checkpoint_yield_handlers.py, lines 55-137) and    *)
(* assigns no attribute of the handler object.                             *)
(***************************************************************************)
MaxConcurrentItems == 4   \* total_items of the BatchConfig 2..MaxConcurrentItems
MaxRanges == 2            \* the BatchConfig expands to 2..MaxRanges ranges

ConcurrentInit ==
    /\ HandlerIdle
    /\ WorkerIdle
    /\ AggregatorIdle
    /\ SubscriberIdle
    /\ LifecycleFresh
    /\ RegistrationIdle
    /\ ProcessorIdle
    /\ StarterIdle
    /\ cw_inputs \in { t \in WorkerTaskInputs : t.fail_on_attempt = 1 /\ ~t.permanent_failure }
    /\ \E t \in 2..MaxConcurrentItems, b \in 1..MaxConcurrentItems :
          LET ranges == CreateCursorConfigs(t, b) IN
          /\ Len(ranges) \in 2..MaxRanges
          /\ cw_workers = [i \in 1..Len(ranges) |->
                              [range |-> ranges[i], retry_count |-> 0, stored |-> None,
                               context |-> MakeContext(None, 0), outcome |-> NoOutcome,
                               phase |-> "pending"]]
    /\ cw_handler =
          [handler_name |-> "checkpoint_yield_dsl_py.step_handlers.checkpoint_yield_worker"]

\* The orchestrator dispatches worker i with its own stored checkpoint.
ConcurrentDispatch(i) ==
    /\ cw_workers[i].phase = "pending"
    /\ cw_workers' = [cw_workers EXCEPT ![i] =
          [cw_workers[i] EXCEPT
              !.context = MakeContext(cw_workers[i].stored, cw_workers[i].retry_count),
              !.outcome = NoOutcome,
              !.phase = "running"]]
    /\ UNCHANGED <<cw_inputs, cw_handler>>
    /\ UNCHANGED <<handler_vars, worker_vars, aggregator_vars, subscriber_vars,
                   lifecycle_vars, registration_vars, processor_vars, starter_vars>>

\* call() that keeps its accumulated dict on the handler object and, with
\* no checkpoint in the context, goes on from the dict kept there.
ConcurrentCallRetainingState(i) ==
    /\ cw_workers[i].phase = "running"
    /\ LET w == cw_workers[i]
           context == IF ~w.context.has_checkpoint /\ "accumulated" \in DOMAIN cw_handler
                      THEN [w.context EXCEPT !.has_checkpoint = TRUE,
                                             !.accumulated_results = Some(cw_handler.accumulated)]
                      ELSE w.context
           out == CheckpointYieldWorkerCall(context, Some(w.range), cw_inputs)
       IN /\ cw_workers' = [cw_workers EXCEPT ![i] =
                [w EXCEPT !.outcome = out.result, !.phase = "returned"]]
          /\ cw_handler' = [handler_name |-> cw_handler.handler_name,
                            accumulated |-> out.accumulated]
    /\ UNCHANGED cw_inputs
    /\ UNCHANGED <<handler_vars, worker_vars, aggregator_vars, subscriber_vars,
                   lifecycle_vars, registration_vars, processor_vars, starter_vars>>

\* One invocation of call() for worker i.
ConcurrentCall(i) ==
    /\ cw_workers[i].phase = "running"
    /\ LET w == cw_workers[i]
           out == CheckpointYieldWorkerCall(w.context, Some(w.range), cw_inputs)
       IN cw_workers' = [cw_workers EXCEPT ![i] =
             [w EXCEPT !.outcome = out.result,
                       !.context = IF w.context.has_checkpoint
                                        /\ ~IsNone(w.context.accumulated_results)
                                   THEN [w.context EXCEPT
                                            !.accumulated_results = Some(out.accumulated)]
                                   ELSE w.context,
                       !.phase = "returned"]]
    /\ UNCHANGED <<cw_inputs, cw_handler>>
    /\ UNCHANGED <<handler_vars, worker_vars, aggregator_vars, subscriber_vars,
                   lifecycle_vars, registration_vars, processor_vars, starter_vars>>

\* The orchestrator stores the checkpoint worker i yielded, for worker i.
ConcurrentPersist(i) ==
    /\ cw_workers[i].phase = "returned"
    /\ cw_workers[i].outcome.kind = "checkpoint"
    /\ cw_workers' = [cw_workers EXCEPT ![i] =
          [cw_workers[i] EXCEPT !.stored = Some(CheckpointOf(cw_workers[i].outcome)),
                                !.phase = "pending"]]
    /\ UNCHANGED <<cw_inputs, cw_handler>>
    /\ UNCHANGED <<handler_vars, worker_vars, aggregator_vars, subscriber_vars,
                   lifecycle_vars, registration_vars, processor_vars, starter_vars>>

\* The orchestrator reschedules a retryable failure of worker i.
ConcurrentRetry(i) ==
    /\ cw_workers[i].phase = "returned"
    /\ cw_workers[i].outcome.kind = "failure"
    /\ cw_workers[i].outcome.retryable
    /\ cw_workers[i].retry_count < MaxRetries
    /\ cw_workers' = [cw_workers EXCEPT ![i] =
          [cw_workers[i] EXCEPT !.retry_count = cw_workers[i].retry_count + 1,
                                !.phase = "pending"]]
    /\ UNCHANGED <<cw_inputs, cw_handler>>
    /\ UNCHANGED <<handler_vars, worker_vars, aggregator_vars, subscriber_vars,
                   lifecycle_vars, registration_vars, processor_vars, starter_vars>>

\* Worker i is finished: success, or a failure that is not retried.
ConcurrentComplete(i) ==
    /\ cw_workers[i].phase = "returned"
    /\ \/ cw_workers[i].outcome.kind = "success"
       \/ /\ cw_workers[i].outcome.kind = "failure"
          /\ (~cw_workers[i].outcome.retryable \/ cw_workers[i].retry_count >= MaxRetries)
    /\ cw_workers' = [cw_workers EXCEPT ![i] = [cw_workers[i] EXCEPT !.phase = "done"]]
    /\ UNCHANGED <<cw_inputs, cw_handler>>
    /\ UNCHANGED <<handler_vars, worker_vars, aggregator_vars, subscriber_vars,
                   lifecycle_vars, registration_vars, processor_vars, starter_vars>>

ConcurrentNext ==
    \/ \E i \in 1..MaxRanges : i \in DOMAIN cw_workers /\ ConcurrentDispatch(i)
    \/ \E i \in 1..MaxRanges : i \in DOMAIN cw_workers /\ ConcurrentCall(i)
    \/ \E i \in 1..MaxRanges : i \in DOMAIN cw_workers /\ ConcurrentPersist(i)
    \/ \E i \in 1..MaxRanges : i \in DOMAIN cw_workers /\ ConcurrentRetry(i)
    \/ \E i \in 1..MaxRanges : i \in DOMAIN cw_workers /\ ConcurrentComplete(i)

SpecConcurrent == ConcurrentInit /\ [][ConcurrentNext]_vars

(***************************************************************************)
(* Claims about concurrent workers.                                        *)
(***************************************************************************)
\* The next state of a worker that runs alone: its chain is a function of
\* its own range, attempt, stored checkpoint and context.
AloneStep(w, task_inputs) ==
    IF w.phase = "pending"
    THEN [w EXCEPT !.context = MakeContext(w.stored, w.retry_count),
                   !.outcome = NoOutcome, !.phase = "running"]
    ELSE IF w.phase = "running"
    THEN LET out == CheckpointYieldWorkerCall(w.context, Some(w.range), task_inputs)
         IN [w EXCEPT !.outcome = out.result,
                      !.context = IF w.context.has_checkpoint
                                       /\ ~IsNone(w.context.accumulated_results)
                                  THEN [w.context EXCEPT
                                           !.accumulated_results = Some(out.accumulated)]
                                  ELSE w.context,
                      !.phase = "returned"]
    ELSE IF w.phase = "returned" /\ w.outcome.kind = "checkpoint"
    THEN [w EXCEPT !.stored = Some(CheckpointOf(w.outcome)), !.phase = "pending"]
    ELSE IF w.phase = "returned" /\ w.outcome.kind = "failure" /\ w.outcome.retryable
              /\ w.retry_count < MaxRetries
    THEN [w EXCEPT !.retry_count = w.retry_count + 1, !.phase = "pending"]
    ELSE [w EXCEPT !.phase = "done"]

MaxDeclaredKeys == 2   \* @inputs keys accumulated on one function: at most this many

\* @depends_on(param="step") or @depends_on(param=("step", Model)): lines 381-395.
DependsOn(param, step, typed) ==
    /\ rg_fn' = [rg_fn EXCEPT
                    !.depends_on = Merge(rg_fn.depends_on, [p \in {param} |-> step]),
                    !.dep_models = IF typed THEN rg_fn.dep_models \cup {param}
                                   ELSE rg_fn.dep_models]
    /\ rg_last' = [op |-> "depends_on"]
    /\ UNCHANGED rg_handler
    /\ UNCHANGED <<handler_vars, worker_vars, aggregator_vars, subscriber_vars,
                   lifecycle_vars, concurrent_vars, processor_vars, starter_vars>>

\* @inputs("key") or @inputs(Model): lines 429-435.
Inputs(decl) ==
    /\ decl.mode = "keys" => Len(rg_fn.inputs) < MaxDeclaredKeys
    /\ rg_fn' = IF decl.mode = "model"
                THEN [rg_fn EXCEPT !.input_model = Some(decl.model)]
                ELSE [rg_fn EXCEPT !.inputs = rg_fn.inputs \o decl.keys]
    /\ rg_last' = [op |-> "inputs"]
    /\ UNCHANGED rg_handler
    /\ UNCHANGED <<handler_vars, worker_vars, aggregator_vars, subscriber_vars,
                   lifecycle_vars, concurrent_vars, processor_vars, starter_vars>>

\* @step_handler(name): lines 343-349.  The generated class keeps the
\* dep_map and the input_keys the function carries now; `declared` records
\* the function's attributes at this moment.
StepHandler ==
    /\ IsNone(rg_handler)
    /\ rg_handler' = Some([dep_map |-> rg_fn.depends_on, input_keys |-> rg_fn.inputs,
                           declared |-> rg_fn])
    /\ rg_last' = [op |-> "step_handler"]
    /\ UNCHANGED rg_fn
    /\ UNCHANGED <<handler_vars, worker_vars, aggregator_vars, subscriber_vars,
                   lifecycle_vars, concurrent_vars, processor_vars, starter_vars>>

\* What _inject_args works from: the dep_map and input_keys of the class,
\* and the _dep_models and _input_model of the function attributes given.
ArgumentSpec(class, attributes) ==
    [dep_map |-> [p \in DOMAIN class.dep_map |->
                     [step |-> class.dep_map[p], typed |-> p \in attributes.dep_models]],
     inputs |-> IF ~IsNone(attributes.input_model)
                THEN ModelInputs(Get(attributes.input_model))
                ELSE KeyInputs({ class.input_keys[i] : i \in 1..Len(class.input_keys) })]

\* call(context) of the generated class: the arguments _inject_args builds
\* (lines 199-240), with the function's attributes as they are now.
RegisteredCall(context) ==
    /\ ~IsNone(rg_handler)
    /\ rg_last' = [op |-> "call", context |-> context,
                   injected |-> InjectArgs(ArgumentSpec(Get(rg_handler), rg_fn), context)]
    /\ UNCHANGED <<rg_fn, rg_handler>>
    /\ UNCHANGED <<handler_vars, worker_vars, aggregator_vars, subscriber_vars,
                   lifecycle_vars, concurrent_vars, processor_vars, starter_vars>>

RegistrationInit ==
    /\ HandlerIdle
    /\ WorkerIdle
    /\ AggregatorIdle
    /\ SubscriberIdle
    /\ LifecycleFresh
    /\ ConcurrentIdle
    /\ RegistrationIdle
    /\ ProcessorIdle
    /\ StarterIdle

RegistrationNext ==
    \/ \E typed \in BOOLEAN :
          \/ DependsOn("cart", "validate_cart", typed)
          \/ DependsOn("approval", "get_approval", typed)
    \/ \E decl \in { KeyInputs(<<k>>) : k \in {"ticket_id", "reason"} }
                      \cup { ModelInputs(m) : m \in {"RefundInput", "ValidatedRefundInput"} } :
          Inputs(decl)
    \/ StepHandler
    \/ \E present \in BOOLEAN :
          RegisteredCall([dependency_results |-> [s \in Steps |-> Some(PyDict(<<"total">>))],
                          input_data |-> [k \in InputKeys |->
                                             IF present THEN Some(PyStr("v")) ELSE None],
                          step_config |-> NoStepConfig])

SpecRegistration == RegistrationInit /\ [][RegistrationNext]_vars

(***************************************************************************)
(* Claims about registration.                                              *)
(***************************************************************************)
\* C29: the ArgumentSpec of a handler is fixed at registration: once
\* @step_handler has generated the handler class for a function, applying
\* @depends_on or @inputs to the function afterwards does not change which
\* arguments a later call injects: a call injects what the declarations
\* present at registration determine.
C29_ArgumentSpecFixedAtRegistration ==
    rg_last.op = "call" =>
        rg_last.injected =
            InjectArgs(ArgumentSpec(Get(rg_handler), Get(rg_handler).declared),
                       rg_last.context)

\* The class was generated for a function declaring the key ticket_id;
\* @inputs(RefundInput) was applied afterwards; the next call injects the
\* model as `inputs` and no ticket_id.
C29_Witness ==
    /\ rg_last.op = "call"
    /\ ~IsNone(rg_handler)
    /\ Get(rg_handler).input_keys = <<"ticket_id">>
    /\ IsNone(Get(rg_handler).declared.input_model)
    /\ rg_fn.input_model = Some("RefundInput")
    /\ IsNone(rg_last.injected.raised)
    /\ DOMAIN rg_last.injected.kwargs = {"inputs"}

(***************************************************************************)
(* Claims about csv_analyzer (batch_processing_handlers.py, lines 42-75).  *)
(***************************************************************************)
\* csv_analyzer counted at least one row and returned its BatchConfig.
CsvAnalyzerSized ==
    /\ ReturnedBatchConfig
    /\ h_fn.name = "csv_analyzer"
    /\ ConfigTotal >= 1

\* The target batch_size and the max_workers the analyzer read.
TargetBatchSize == ConfigGet(h_context, "batch_size", DefaultBatchSize)
WorkerCap == ConfigGet(h_context, "max_workers", DefaultMaxWorkers)

\* C30 (worker cap): for a row count T >= 1, batch_size B >= 1 and
\* max_workers W >= 1 the BatchConfig csv_analyzer returns expands to at most
\* W cursor ranges: ceil(T / effective_batch_size) <= min(ceil(T / B), W),
\* and that many ranges are emitted.
C30_WorkerCap ==
    (CsvAnalyzerSized /\ TargetBatchSize >= 1 /\ WorkerCap >= 1) =>
        /\ h_result.kind = "success"
        /\ ConfigTotal = h_fn.fs.row_count
        /\ Len(Ranges) = Ceil(ConfigTotal, ConfigBatch)
        /\ Ceil(ConfigTotal, ConfigBatch)
              <= Min(Ceil(ConfigTotal, TargetBatchSize), WorkerCap)
        /\ Len(Ranges) <= WorkerCap

\* Seven rows, batch_size 2, max_workers 3: four batches would be needed, the
\* cap leaves three workers with an effective batch size of 3.
C30_Witness ==
    /\ CsvAnalyzerSized
    /\ ConfigTotal = 7 /\ TargetBatchSize = 2 /\ WorkerCap = 3
    /\ Ceil(ConfigTotal, TargetBatchSize) = 4
    /\ ConfigBatch = 3
    /\ Len(Ranges) = 3

\* The worker cap binds: the target batch_size would need more than
\* max_workers batches.
CapExceeded == Ceil(ConfigTotal, TargetBatchSize) > WorkerCap

MaxRows == 4           \* data rows of the file: 0..MaxRows
MaxProcessorBatch == 3 \* batch_size of the BatchConfig the steps come from

NoRows == [items_processed |-> 0, items_succeeded |-> 0, items_failed |-> 0,
           results |-> <<>>, errors |-> <<>>]

\* Lines 153-178, the loop body for rows at and after row_num: results and
\* errors hold the row_number of each row appended.
RECURSIVE ProcessRowsUpToEnd(_, _, _, _, _)
ProcessRowsUpToEnd(file, row_num, start_cursor, end_cursor, acc) ==
    IF row_num > Len(file) THEN acc
    ELSE IF row_num <= start_cursor
    THEN ProcessRowsUpToEnd(file, row_num + 1, start_cursor, end_cursor, acc)
    ELSE IF row_num > end_cursor + 1 THEN acc
    ELSE ProcessRowsUpToEnd(file, row_num + 1, start_cursor, end_cursor,
             IF file[row_num]
             THEN [acc EXCEPT !.items_processed = @ + 1, !.items_succeeded = @ + 1,
                              !.results = Append(@, row_num)]
             ELSE [acc EXCEPT !.items_processed = @ + 1, !.items_failed = @ + 1,
                              !.errors = Append(@, row_num)])

\* Lines 153-178: `for row_num, row in enumerate(reader, start=1)`.
RECURSIVE ProcessRows(_, _, _, _, _)
ProcessRows(file, row_num, start_cursor, end_cursor, acc) ==
    IF row_num > Len(file) THEN acc
    ELSE IF row_num <= start_cursor
    THEN ProcessRows(file, row_num + 1, start_cursor, end_cursor, acc)
    ELSE IF row_num > end_cursor THEN acc
    ELSE ProcessRows(file, row_num + 1, start_cursor, end_cursor,
             IF file[row_num]
             THEN [acc EXCEPT !.items_processed = @ + 1, !.items_succeeded = @ + 1,
                              !.results = Append(@, row_num)]
             ELSE [acc EXCEPT !.items_processed = @ + 1, !.items_failed = @ + 1,
                              !.errors = Append(@, row_num)])

\* _process_csv_batch(csv_file_path, start_cursor, end_cursor): lines 140-186.
ProcessCsvBatch(file, start_cursor, end_cursor) ==
    ProcessRows(file, 1, start_cursor, end_cursor, NoRows)

\* batch_worker_success(...) as the processor calls it.
CsvWorkerSuccess(rows, last_cursor, metadata) ==
    [kind |-> "success", items_processed |-> rows.items_processed,
     items_succeeded |-> rows.items_succeeded, items_failed |-> rows.items_failed,
     results |-> rows.results, errors |-> rows.errors,
     last_cursor |-> last_cursor, metadata |-> metadata]

\* CsvBatchProcessorDslHandler.call(context): lines 87-138.  step_inputs is
\* [is_no_op, cursor]; cursor is None or <<[start_cursor, end_cursor, batch_id]>>.
CsvBatchProcessorCall(step_inputs, dependency, file) ==
    LET cursor == step_inputs.cursor
        start_cursor == IF IsNone(cursor) THEN 0 ELSE Get(cursor).start_cursor
        end_cursor == IF IsNone(cursor) THEN 0 ELSE Get(cursor).end_cursor
        batch_id == IF IsNone(cursor) THEN "unknown" ELSE Get(cursor).batch_id
    IN IF step_inputs.is_no_op
       THEN CsvWorkerSuccess(NoRows, 0, [no_op |-> TRUE])
       ELSE IF IsNone(dependency)
       THEN Failure("Missing analyze_csv_dsl_py result", "dependency_error", TRUE, <<>>)
       ELSE IF Get(dependency).csv_file_path \in {None, Some("")}
       THEN Failure("csv_file_path not found in batch metadata", "dependency_error",
                    FALSE, <<>>)
       ELSE CsvWorkerSuccess(ProcessCsvBatch(file, start_cursor, end_cursor),
                             end_cursor, [batch_id |-> batch_id])

\* The steps created for a BatchConfig(total, batch): one per cursor range,
\* or a single no-op placeholder.
ProcessorSteps(total, batch) ==
    LET ranges == CreateCursorConfigs(total, batch)
    IN IF Len(ranges) = 0
       THEN << [step_inputs |-> [is_no_op |-> TRUE, cursor |-> None], result |-> None] >>
       ELSE [i \in 1..Len(ranges) |->
                [step_inputs |->
                    [is_no_op |-> FALSE,
                     cursor |-> Some([start_cursor |-> ranges[i].start_cursor,
                                      end_cursor |-> ranges[i].end_cursor,
                                      batch_id |-> i])],
                 result |-> None]]

\* A file of up to MaxRows rows; the analyzer's row count is the number of
\* rows, or one more (the file lost a row after it was analysed).
ProcessorInit ==
    /\ HandlerIdle
    /\ WorkerIdle
    /\ AggregatorIdle
    /\ SubscriberIdle
    /\ LifecycleFresh
    /\ ConcurrentIdle
    /\ RegistrationIdle
    /\ StarterIdle
    /\ \E n \in 0..MaxRows : cp_file \in [1..n -> BOOLEAN]
    /\ cp_dependency \in {None} \cup
           { Some([csv_file_path |-> p]) : p \in {None, Some(""), Some("/data/rows.csv")} }
    /\ \E total \in Len(cp_file)..(Len(cp_file) + 1), batch \in 1..MaxProcessorBatch :
          cp_workers = ProcessorSteps(total, batch)

\* The worker calls step i's handler.
ProcessorCall(i) ==
    /\ IsNone(cp_workers[i].result)
    /\ cp_workers' = [cp_workers EXCEPT ![i].result =
                         Some(CsvBatchProcessorCall(cp_workers[i].step_inputs,
                                                    cp_dependency, cp_file))]
    /\ UNCHANGED <<cp_file, cp_dependency>>
    /\ UNCHANGED <<handler_vars, worker_vars, aggregator_vars, subscriber_vars,
                   lifecycle_vars, concurrent_vars, registration_vars, starter_vars>>

ProcessorNext == \E i \in 1..Len(cp_workers) : ProcessorCall(i)

SpecProcessor == ProcessorInit /\ [][ProcessorNext]_vars

(***************************************************************************)
(* Claims about the CSV batch processor.                                   *)
(***************************************************************************)
\* Step i ran _process_csv_batch on its range.
Processed(i) ==
    /\ ~IsNone(cp_workers[i].result)
    /\ ~cp_workers[i].step_inputs.is_no_op
    /\ Get(cp_workers[i].result).kind = "success"

\* The zero-based row indexes step i's result reports, succeeded or failed.
RowsOf(i) ==
    LET r == Get(cp_workers[i].result)
    IN { r.results[k] - 1 : k \in 1..Len(r.results) }
          \cup { r.errors[k] - 1 : k \in 1..Len(r.errors) }

StepRange(i) == Get(cp_workers[i].step_inputs.cursor)

RECURSIVE SumProcessed(_)
SumProcessed(n) ==
    IF n = 0 THEN 0 ELSE Get(cp_workers[n].result).items_processed + SumProcessed(n - 1)

\* The steps partition [0, T), T the number of data rows, and all have run.
AllProcessed ==
    /\ \A i \in 1..Len(cp_workers) : Processed(i)
    /\ StepRange(Len(cp_workers)).end_cursor = Len(cp_file)

\* C32: a processor given [s, e) processes exactly the data rows with
\* zero-based index i, s <= i < e, that exist in the file, each once; workers
\* over a contiguous partition of [0, T) process every row exactly once and
\* their items_processed sum to T.
C32_ProcessorCoversItsRange ==
    /\ \A i \in 1..Len(cp_workers) :
          Processed(i) =>
             LET r == Get(cp_workers[i].result) IN
             /\ RowsOf(i) = { x \in StepRange(i).start_cursor..(StepRange(i).end_cursor - 1) :
                                x < Len(cp_file) }
             /\ r.items_processed = Cardinality(RowsOf(i))
             /\ r.items_processed = Len(r.results) + Len(r.errors)
             /\ r.items_succeeded = Len(r.results) /\ r.items_failed = Len(r.errors)
             /\ \A k \in 1..Len(r.results) : cp_file[r.results[k]]
             /\ \A k \in 1..Len(r.errors) : ~cp_file[r.errors[k]]
    /\ AllProcessed =>
          /\ \A x \in 0..(Len(cp_file) - 1) :
                Cardinality({ i \in 1..Len(cp_workers) : x \in RowsOf(i) }) = 1
          /\ SumProcessed(Len(cp_workers)) = Len(cp_file)

\* Four rows in two batches of two, one row of the second batch unparsable:
\* both steps ran, the second reports rows 2 and 3.
C32_Witness ==
    /\ Len(cp_file) = 4 /\ ~cp_file[4]
    /\ Len(cp_workers) = 2
    /\ AllProcessed
    /\ RowsOf(2) = {2, 3}
    /\ Get(cp_workers[2].result).items_failed = 1
    /\ SumProcessed(2) = 4

(***************************************************************************)
(* Claims about what a decision handler returns (functional.py, lines      *)
(* 512-532 and 482-502).                                                   *)
(***************************************************************************)
\* The function of a decision handler was invoked and returned an object.
DecisionFnReturned ==
    /\ HandlerFinished
    /\ h_handler.decorator = "decision_handler"
    /\ h_run.fn_invoked
    /\ IsNone(h_run.raised)

\* C33 (escape hatch): when the function of a @decision_handler returns a
\* StepHandlerResult, success or failure, the handler returns that result
\* unchanged, with no decision_point_outcome or routing_context added.
C33_EscapeHatch ==
    (DecisionFnReturned /\ ReturnedType = "StepHandlerResult") =>
        /\ h_phase = "returned"
        /\ h_result.kind = Get(h_run.raw).val.kind
        /\ h_result.metadata = Get(h_run.raw).val.metadata
        /\ h_result = Get(h_run.raw).val

\* The function returned Failure("declined") and the handler returned that
\* failure as it was.
C33_Witness ==
    /\ DecisionFnReturned
    /\ h_run.raw = Some(PyResult(Failure("declined", "PERMANENT_ERROR", FALSE, <<>>)))
    /\ h_phase = "returned"
    /\ h_result = Failure("declined", "PERMANENT_ERROR", FALSE, <<>>)

\* C34: every Success returned by a @decision_handler whose function did
\* not itself return a StepHandlerResult carries a decision_point_outcome of
\* type create_steps or no_branches.  (The payloads _wrap_result builds here
\* are the returned dict, a model's dump, {} and {"result": v}; none of them
\* has a decision_point_outcome, so only a returned Decision can carry one.)
C34_SuccessCarriesDecision ==
    (/\ DecisionFnReturned
     /\ ReturnedType # "StepHandlerResult"
     /\ h_phase = "returned"
     /\ h_result.kind = "success") =>
        /\ ReturnedType = "Decision"
        /\ h_result.result.val.decision_point_outcome.type \in {"create_steps", "no_branches"}

\* The function of a decision handler returned the dict {"processed": ...}
\* and the handler returned the plain Success of that dict.
C34_Witness ==
    /\ DecisionFnReturned
    /\ h_run.raw = Some(PyDict(<<"processed">>))
    /\ h_phase = "returned"
    /\ h_result = Success(PyDict(<<"processed">>), <<>>)

\* The function of a decision handler returned Decision.skip(reason, ...).
SkipReturned(reason) ==
    /\ DecisionFnReturned
    /\ ReturnedType = "Decision"
    /\ Get(h_run.raw).val.decision_type = "no_branches"
    /\ Get(h_run.raw).val.reason = Some(reason)

NoBranchesReason == h_result.result.val.reason

\* C35 as stated: for every reason string r, the empty string included, a
\* decision handler whose function returns Decision.skip(r) returns a
\* no_branches outcome whose reason is exactly r.
C35_SkipReasonExact ==
    \A r \in SkipReasons :
        SkipReturned(r) =>
            /\ h_result.kind = "success"
            /\ h_result.result.val.decision_point_outcome.type = "no_branches"
            /\ NoBranchesReason = r

\* C35 as the code has it: the outcome is no_branches and its reason is
\* exactly r for every non-empty r; for the empty string the reason is
\* "No branches".
C35_SkipReasonAmended ==
    \A r \in SkipReasons :
        SkipReturned(r) =>
            /\ h_result.kind = "success"
            /\ h_result.result.val.decision_point_outcome.type = "no_branches"
            /\ (r # "" => NoBranchesReason = r)
            /\ (r = "" => NoBranchesReason = "No branches")

\* Decision.skip("") came back with the reason "No branches".
C35_Witness ==
    /\ SkipReturned("")
    /\ h_result.kind = "success"
    /\ NoBranchesReason = "No branches"

(***************************************************************************)
(* Claims about the worker's final payload and its failure injection.      *)
(***************************************************************************)
\* The worker's chain ended in a Success.
WorkerSucceeded ==
    /\ wk_phase \in {"returned", "done"}
    /\ wk_outcome.kind = "success"

\* C36: the checkpoints_used value in a worker's Success payload equals the
\* number of Checkpoint outcomes emitted along that worker's invocation
\* chain, for every range length and checkpoint interval K >= 1.
C36_CheckpointsUsedIsCount ==
    WorkerSucceeded => wk_outcome.batch_metadata.checkpoints_used = wk_yields

\* Range [0, 2) with K = 1 and no failure: one Checkpoint (at cursor 1) was
\* emitted and the Success reports checkpoints_used = 2.
C36_Witness ==
    /\ WorkerSucceeded
    /\ wk_batch_inputs = Some([start_cursor |-> 0, end_cursor |-> 2])
    /\ wk_task_inputs.items_per_checkpoint = 1
    /\ wk_failures = 0
    /\ wk_yields = 1
    /\ wk_outcome.batch_metadata.checkpoints_used = 2

\* The attempt under way is the one failure injection is configured for.
FailingAttempt ==
    /\ WorkerHasRange
    /\ ~IsNone(wk_task_inputs.fail_after_items)
    /\ wk_retry_count + 1 = wk_task_inputs.fail_on_attempt

FailAfterItems == Get(wk_task_inputs.fail_after_items)
RangeLength == WorkerEnd - WorkerStart

IsPrefix(s, t) == Len(s) <= Len(t) /\ SubSeq(t, 1, Len(s)) = s

\* What stops what _start started; the registry calls start nothing.
StopOf(call) ==
    CASE call = "bootstrap_worker" -> <<"stop_worker">>
      [] call = "bridge.start" -> <<"bridge.stop">>
      [] call = "subscriber.start" -> <<"subscriber.stop">>
      [] call = "poller.start" -> <<"poller.stop">>
      [] OTHER -> <<>>

\* The stop calls for a sequence of start calls, last started first.
RECURSIVE ReverseStops(_)
ReverseStops(calls) ==
    IF calls = <<>> THEN <<>> ELSE ReverseStops(Tail(calls)) \o StopOf(Head(calls))

\* C38: stop() of a running Worker stops the components in the reverse of
\* their start order: event poller, then step-execution subscriber, then
\* event bridge, then the Rust worker (stop_worker).  When one of the calls
\* raises, the calls made are that order up to the raising call.
C38_StopReversesStartOrder ==
    [][(lc_last'.op = "stop" /\ lc_workers[lc_last'.target].running) =>
          /\ \A packages \in HandlerPackages :
                IsPrefix(lc_last'.calls, ReverseStops(StartCalls(packages)))
          /\ IsPrefix(lc_last'.calls,
                      <<"poller.stop", "subscriber.stop", "bridge.stop", "stop_worker">>)
          /\ lc_last'.calls # <<>>
          /\ IsNone(lc_last'.raised) => Len(lc_last'.calls) = MaxStopCalls]_vars

\* stop() of a running Worker has just made its four calls.
C38_Witness ==
    /\ lc_last.op = "stop"
    /\ IsNone(lc_last.raised)
    /\ lc_last.calls = <<"poller.stop", "subscriber.stop", "bridge.stop", "stop_worker">>
    /\ ~lc_workers[lc_last.target].running

\* The last operation was a start() that raised after bootstrap_worker had
\* returned.
StartFailedAfterBootstrap ==
    /\ lc_last.op = "start"
    /\ ~IsNone(lc_last.raised)
    /\ Len(lc_last.calls) > 1
    /\ lc_last.calls[1] = "bootstrap_worker"

\* Some Worker object holds a started subscriber or poller.
ComponentHeldStarted ==
    \E id \in 1..Len(lc_workers) :
        lc_workers[id].subscriber = "started" \/ lc_workers[id].poller = "started"

\* C40: if Worker.start() raises after bootstrap_worker has succeeded, every
\* component already started is stopped and stop_worker is called: no
\* component is left running while Worker.instance() is None.
C40_FailedStartStopsComponents ==
    StartFailedAfterBootstrap =>
        /\ Contains(lc_last.calls, "stop_worker")
        /\ (IsNone(Worker_instance(lc_instance, lc_workers)) =>
              /\ ~lc_components.ffi
              /\ ~lc_components.bridge
              /\ ~ComponentHeldStarted)

\* The first start() raised in poller.start: no Worker is the singleton,
\* the FFI worker, the bridge and the new object's subscriber are running,
\* and stop_worker was not called.
C40_Witness ==
    /\ StartFailedAfterBootstrap
    /\ lc_last.raised = Some(Exc("RuntimeError", "poller.start", None))
    /\ Len(lc_workers) = 1
    /\ IsNone(lc_instance)
    /\ lc_components.ffi /\ lc_components.bridge
    /\ lc_workers[1].subscriber = "started"
    /\ ~Contains(lc_last.calls, "stop_worker")

(***************************************************************************)
(* Worker.start() called from several threads (worker.py, lines 98-107).   *)
(* start() takes no lock: a thread can be suspended between the test of    *)
(* cls._instance, the construction and _start of its Worker, and the       *)
(* assignment of cls._instance.  _start is taken as one step; any of its   *)
(* calls may raise, a second bootstrap_worker included.                    *)
(***************************************************************************)
MaxThreads == 2

StarterInit ==
    /\ HandlerIdle
    /\ WorkerIdle
    /\ AggregatorIdle
    /\ SubscriberIdle
    /\ LifecycleFresh
    /\ ConcurrentIdle
    /\ RegistrationIdle
    /\ ProcessorIdle
    /\ cs_threads = [t \in 1..MaxThreads |->
                        [pc |-> "called", worker |-> None, returned |-> None, raised |-> None]]

\* Lines 98-102: `if cls._instance is not None and cls._instance._running`.
StartCheck(t) ==
    /\ cs_threads[t].pc = "called"
    /\ cs_threads' =
          [cs_threads EXCEPT ![t] =
              IF InstanceRunning(lc_instance, lc_workers)
              THEN [cs_threads[t] EXCEPT !.pc = "returned", !.returned = lc_instance]
              ELSE [cs_threads[t] EXCEPT !.pc = "checked"]]
    /\ UNCHANGED <<handler_vars, worker_vars, aggregator_vars, subscriber_vars,
                   lifecycle_vars, concurrent_vars, registration_vars, processor_vars>>

\* Lines 104-105: `worker = cls()` and `worker._start(...)`; the call at
\* position fail_at raises (0: none) and the exception leaves start().
StartBoot(t, packages, fail_at) ==
    /\ cs_threads[t].pc = "checked"
    /\ fail_at \in 0..Len(StartCalls(packages))
    /\ LET out == Worker_start_internal(lc_components, packages, fail_at)
           id == Len(lc_workers) + 1
       IN /\ lc_workers' = Append(lc_workers, out.worker)
          /\ lc_components' = out.components
          /\ cs_threads' =
                [cs_threads EXCEPT ![t] =
                    IF IsNone(out.raised)
                    THEN [cs_threads[t] EXCEPT !.pc = "started", !.worker = Some(id)]
                    ELSE [cs_threads[t] EXCEPT !.pc = "raised", !.raised = out.raised]]
    /\ UNCHANGED <<lc_instance, lc_last>>
    /\ UNCHANGED <<handler_vars, worker_vars, aggregator_vars, subscriber_vars,
                   concurrent_vars, registration_vars, processor_vars>>

\* Lines 106-107: `cls._instance = worker` and `return worker`.
StartPublish(t) ==
    /\ cs_threads[t].pc = "started"
    /\ lc_instance' = cs_threads[t].worker
    /\ cs_threads' = [cs_threads EXCEPT ![t] =
                         [cs_threads[t] EXCEPT !.pc = "returned",
                                               !.returned = cs_threads[t].worker]]
    /\ UNCHANGED <<lc_workers, lc_components, lc_last>>
    /\ UNCHANGED <<handler_vars, worker_vars, aggregator_vars, subscriber_vars,
                   concurrent_vars, registration_vars, processor_vars>>

StarterNext ==
    \/ \E t \in 1..MaxThreads : StartCheck(t)
    \/ \E t \in 1..MaxThreads : \E packages \in HandlerPackages :
          \E fail_at \in 0..Len(StartCalls(packages)) : StartBoot(t, packages, fail_at)
    \/ \E t \in 1..MaxThreads : StartPublish(t)

SpecConcurrentStart == StarterInit /\ [][StarterNext]_vars

\* The Worker objects that are bootstrapped and running.
RunningWorkers == { id \in 1..Len(lc_workers) : lc_workers[id].running }

\* C39: for any interleaving of concurrent Worker.start() calls, at most
\* one Worker is bootstrapped and running at any time, and all callers
\* receive the same instance.
C39_SingleWorkerUnderConcurrentStart ==
    /\ Cardinality(RunningWorkers) <= 1
    /\ \A t, u \in 1..MaxThreads :
          (cs_threads[t].pc = "returned" /\ cs_threads[u].pc = "returned") =>
              cs_threads[t].returned = cs_threads[u].returned

\* Two threads passed the test before either had assigned cls._instance:
\* each bootstrapped and started its own Worker and got it back.
C39_Witness ==
    /\ cs_threads[1].pc = "returned" /\ cs_threads[2].pc = "returned"
    /\ cs_threads[1].returned # cs_threads[2].returned
    /\ RunningWorkers = {1, 2}
    /\ lc_instance \in {Some(1), Some(2)}

=============================================================================
